---- MODULE Spec2Model ----
(***************************************************************************)
(* Model of the NewsScrapper repository: the strategy orchestrator of      *)
(* rss_news_scraper.py (RSSNewsScraper.scrape_source), the article         *)
(* pipelines of rss_news_scraper.py and category_news_scraper.py, and the  *)
(* command line driver news_scraper.py / enhanced_category_scraper.py.     *)
(* Text is modelled as sequences of one-character strings.                 *)
(***************************************************************************)
EXTENDS Integers, Sequences, FiniteSets, TLC

VARIABLES
  \* ---- RSSNewsScraper.scrape_source (one call) ----
  known,      \* source_key in self.sources
  cfg,        \* self.sources[source_key]: [category, strategies]
  aiOnly,     \* the ai_only argument
  state,      \* position of the call: PENDING, TRYING, SUCCEEDED, EXHAUSTED, UNKNOWN, RAISED
  idx,        \* index of the strategy the for loop is at
  history,    \* one record per loop iteration that ran
  result,     \* the returned list
  \* ---- one run of an article loop (parse_feed_once, scrape_listing_to_articles,
  \*      scrape_rss_feed, scrape_website_articles) ----
  pipe,        \* which function runs
  feedload,    \* what loading the feed did: "ok" or "raise" (an exception)
  items,       \* feed.entries / candidate_urls / article_links, as item ids
  maxArticles, \* the max_articles argument
  pos,         \* index of the item the loop is at
  articles,    \* the articles list built so far
  trail,       \* one record per loop iteration that ran
  pstate,      \* idle, running, done
  \* ---- one invocation of news_scraper.py (main_cli) ----
  config,      \* EnhancedCategoryScraper.categories, as loaded by _load_config
  listFlag,    \* args.list_categories
  selected,    \* args.category: a list of names (<<>> stands for None)
  todo,        \* the categories the run loops over
  cpos,        \* index of the category the loop is at
  results,     \* the results dict
  files,       \* the categories whose JSON file save_results has written
  stdout,      \* what was written to sys.stdout
  stderr,      \* what was written to sys.stderr
  exitCode,    \* the process exit status ("none" while running)
  cstate,      \* idle, start, scraping, done
  \* ---- the page fetches (get_soup) ----
  fetches,     \* one record per get_soup call made so far
  \* ---- one feed auto-discovery (find_rss_links and the loop over its result) ----
  dImpl,       \* "rss": rss_news_scraper.py, "category": category_news_scraper.py
  seed,        \* the site_url argument
  seedResp,    \* what the host answers when the seed page is fetched
  links,       \* the link elements of the seed page, in document order
  feeds,       \* what find_rss_links returned
  dpos,        \* index of the candidate the loop is at
  tried,       \* one record per candidate parsed
  dResult,     \* the articles the loop returned
  dstate,      \* idle, start, trying, returned, exhausted
  \* ---- the candidate links of one listing page ----
  lImpl,       \* "rss": scrape_listing_to_articles, "category": scrape_website_articles
  listing,     \* the listing_url / site_url argument
  anchors,     \* the anchors of the listing page, in document order
  lQuota,      \* the max_articles argument
  candidates,  \* candidate_urls / article_links
  lstate,      \* idle, start, collected
  \* ---- one source URL of CategoryNewsScraper.scrape_category ----
  chainOn,     \* the auto-discovery runs inside scrape_category
  direct,      \* <<the list scrape_rss_feed(url) returned>>, <<>> before the call
  listed,      \* <<the list the page scrape returned>>, <<>> when it did not run
  srcArticles, \* the articles added to all_articles for this URL
  \* ---- the metadata of one emitted article (extract_meta, the feed entry's date) ----
  mPath,       \* the function that emits the article
  mUrl,        \* the url argument of extract_meta
  mPage,       \* the metadata elements of the article page
  mEntry,      \* the published date of the feed entry, as a date id
  meta,        \* <<the title, canonical and published stored>>, <<>> before
  mstate,      \* idle, start, extracted
  \* ---- the body of one article page ----
  bImpl,       \* "rss": fetch_article_content, "category": extract_main_content
  bKey,        \* the source_key argument of fetch_article_content
  bPage,       \* the containers of the page, in document order
  body,        \* <<the content extracted>>, <<>> before
  bstate,      \* idle, start, extracted
  \* ---- one call of RSSNewsScraper.scrape_all / scrape_ai_sources_only ----
  aMode,       \* the method called
  aSources,    \* the keys of self.sources
  aOutcome,    \* what scrape_source does for each configured key
  aPos,        \* index of the key the loop is at
  aResults,    \* the results dict
  aState       \* idle, running, returned, raised

srcVars == <<known, cfg, aiOnly, state, idx, history, result>>
pipeVars == <<pipe, feedload, items, maxArticles, pos, articles, trail, pstate>>
cliVars == <<config, listFlag, selected, todo, cpos, results, files, stdout, stderr,
             exitCode, cstate>>
discVars == <<dImpl, seed, seedResp, links, feeds, dpos, tried, dResult, dstate>>
candVars == <<lImpl, listing, anchors, lQuota, candidates, lstate>>
chainVars == <<chainOn, direct, listed, srcArticles>>
metaVars == <<mPath, mUrl, mPage, mEntry, meta, mstate>>
bodyVars == <<bImpl, bKey, bPage, body, bstate>>
allVars == <<aMode, aSources, aOutcome, aPos, aResults, aState>>
pageVars == <<metaVars, bodyVars, allVars>>
netVars == <<fetches, discVars, candVars, chainVars, pageVars>>
vars == <<srcVars, pipeVars, cliVars, netVars>>

\* no article loop is running
PipeIdle ==
  /\ pipe = "none"
  /\ feedload = "none"
  /\ items = <<>>
  /\ maxArticles = 0
  /\ pos = 0
  /\ articles = <<>>
  /\ trail = <<>>
  /\ pstate = "idle"

\* no auto-discovery is running
DiscIdle ==
  /\ dImpl = "none"
  /\ seed = "none"
  /\ seedResp = "none"
  /\ links = <<>>
  /\ feeds = <<>>
  /\ dpos = 0
  /\ tried = <<>>
  /\ dResult = <<>>
  /\ dstate = "idle"

\* no listing page is being read
CandIdle ==
  /\ lImpl = "none"
  /\ listing = "none"
  /\ anchors = <<>>
  /\ lQuota = 0
  /\ candidates = <<>>
  /\ lstate = "idle"

\* no source URL of a category is being processed
ChainIdle ==
  /\ chainOn = FALSE
  /\ direct = <<>>
  /\ listed = <<>>
  /\ srcArticles = <<>>

\* no article's metadata is being extracted
MetaIdle ==
  /\ mPath = "none"
  /\ mUrl = "none"
  /\ mPage = "none"
  /\ mEntry = "none"
  /\ meta = <<>>
  /\ mstate = "idle"

\* no article's body is being extracted
BodyIdle ==
  /\ bImpl = "none"
  /\ bKey = "none"
  /\ bPage = <<>>
  /\ body = <<>>
  /\ bstate = "idle"

\* no scrape_all or scrape_ai_sources_only call is running
AllIdle ==
  /\ aMode = "none"
  /\ aSources = {}
  /\ aOutcome = <<>>
  /\ aPos = 0
  /\ aResults = <<>>
  /\ aState = "idle"

\* no article page is being read and no call over all sources is running
PageIdle == MetaIdle /\ BodyIdle /\ AllIdle

\* no page is fetched, discovered from or read
NetIdle ==
  /\ fetches = <<>>
  /\ DiscIdle
  /\ CandIdle
  /\ ChainIdle
  /\ PageIdle

\* the empty dict
EmptyDict == [k \in {} |-> <<>>]

\* no command line run is in progress
CliIdle ==
  /\ config = EmptyDict
  /\ listFlag = FALSE
  /\ selected = <<>>
  /\ todo = <<>>
  /\ cpos = 0
  /\ results = EmptyDict
  /\ files = {}
  /\ stdout = <<>>
  /\ stderr = <<>>
  /\ exitCode = "none"
  /\ cstate = "idle"

\* no scrape_source call is running
SourceIdle ==
  /\ known = FALSE
  /\ cfg = [category |-> "Technology", strategies |-> <<>>]
  /\ aiOnly = FALSE
  /\ state = "idle"
  /\ idx = 0
  /\ history = <<>>
  /\ result = <<>>

(***************************************************************************)
(* Text helpers                                                            *)
(***************************************************************************)
UpperChars == <<"A", "B", "C", "D", "E", "F", "G", "H", "I", "J", "K", "L", "M", "N", "O", "P", "Q", "R", "S", "T", "U", "V", "W", "X", "Y", "Z">>
LowerChars == <<"a", "b", "c", "d", "e", "f", "g", "h", "i", "j", "k", "l", "m", "n", "o", "p", "q", "r", "s", "t", "u", "v", "w", "x", "y", "z">>

\* str.lower() on one character
LowerChar(c) ==
  IF \E i \in 1..Len(UpperChars) : UpperChars[i] = c
  THEN LowerChars[CHOOSE i \in 1..Len(UpperChars) : UpperChars[i] = c]
  ELSE c

\* str.lower()
Lower(s) == [i \in 1..Len(s) |-> LowerChar(s[i])]

\* k in text (substring test)
Contains(text, k) ==
  \E i \in 0..(Len(text) - Len(k)) : SubSeq(text, i + 1, i + Len(k)) = k

\* text.startswith(p)
StartsWith(text, p) ==
  Len(text) >= Len(p) /\ SubSeq(text, 1, Len(p)) = p

(***************************************************************************)
(* RSSNewsScraper.is_ai_related                                            *)
(***************************************************************************)
ai_keywords ==
  << <<"a", "r", "t", "i", "f", "i", "c", "i", "a", "l", " ", "i", "n", "t", "e", "l", "l", "i", "g", "e", "n", "c", "e">>,
     <<" ", "a", "i", " ">>,
     <<"m", "a", "c", "h", "i", "n", "e", " ", "l", "e", "a", "r", "n", "i", "n", "g">>,
     <<" ", "m", "l", " ">>,
     <<"d", "e", "e", "p", " ", "l", "e", "a", "r", "n", "i", "n", "g">>,
     <<"n", "e", "u", "r", "a", "l", " ", "n", "e", "t", "w", "o", "r", "k">>,
     <<"c", "h", "a", "t", "g", "p", "t">>,
     <<"g", "p", "t">>,
     <<"l", "l", "m">>,
     <<"l", "a", "r", "g", "e", " ", "l", "a", "n", "g", "u", "a", "g", "e", " ", "m", "o", "d", "e", "l">>,
     <<"a", "u", "t", "o", "m", "a", "t", "i", "o", "n">>,
     <<"r", "o", "b", "o", "t", "i", "c", "s">>,
     <<"c", "o", "m", "p", "u", "t", "e", "r", " ", "v", "i", "s", "i", "o", "n">>,
     <<"n", "l", "p">>,
     <<"n", "a", "t", "u", "r", "a", "l", " ", "l", "a", "n", "g", "u", "a", "g", "e">>,
     <<"g", "e", "n", "e", "r", "a", "t", "i", "v", "e", " ", "a", "i">>,
     <<"o", "p", "e", "n", "a", "i">>,
     <<"a", "n", "t", "h", "r", "o", "p", "i", "c">>,
     <<"c", "l", "a", "u", "d", "e">>,
     <<"b", "a", "r", "d">>,
     <<"g", "e", "m", "i", "n", "i">>,
     <<"m", "i", "s", "t", "r", "a", "l">> >>

is_ai_related(title, description) ==
  LET text == Lower(<<" ">> \o title \o <<" ">> \o description \o <<" ">>)
  IN  \E k \in 1..Len(ai_keywords) : Contains(text, ai_keywords[k])

(***************************************************************************)
(* Inputs of scrape_source: articles a strategy can return, categories,    *)
(* strategy descriptors.                                                   *)
(***************************************************************************)
TitleGpu == <<"N", "e", "w", " ", "G", "P", "U", " ", "c", "a", "r", "d", " ", "r", "e", "l", "e", "a", "s", "e", "d">>
TitleOpenAI == <<"O", "p", "e", "n", "A", "I", " ", "s", "h", "i", "p", "s", " ", "m", "o", "d", "e", "l">>
TitleChips == <<"C", "h", "i", "p", " ", "s", "a", "l", "e", "s", " ", "r", "i", "s", "e">>
DescML == <<"I", "t", " ", "u", "s", "e", "s", " ", "M", "L">>
TitleTrails == <<"M", "o", "u", "n", "t", "a", "i", "n", " ", "t", "r", "a", "i", "l", "s">>
DescMaintain == <<"P", "l", "e", "a", "s", "e", " ", "m", "a", "i", "n", "t", "a", "i", "n">>

\* NewsArticle objects a strategy may return (title, description), by id
ArticlePool ==
  [ gpu    |-> [title |-> TitleGpu,    description |-> <<>>],
    openai |-> [title |-> TitleOpenAI, description |-> <<>>],
    chips  |-> [title |-> TitleChips,  description |-> DescML],
    trails |-> [title |-> TitleTrails, description |-> DescMaintain] ]

ArticleIds == DOMAIN ArticlePool

\* the lists a strategy run (_run_rss, _run_autodiscover, _run_scrape) returns
Yields ==
  { <<>>, <<"gpu">>, <<"openai">>, <<"gpu", "trails">>,
    <<"gpu", "chips">>, <<"openai", "gpu">>, <<"chips">> }

CatTechnology == <<"T", "e", "c", "h", "n", "o", "l", "o", "g", "y">>
CatAITechnology == <<"A", "I", "/", "T", "e", "c", "h", "n", "o", "l", "o", "g", "y">>
CatAIResearch == <<"A", "I", "/", "R", "e", "s", "e", "a", "r", "c", "h">>
PrefixTechnology == <<"t", "e", "c", "h", "n", "o", "l", "o", "g", "y">>

NoCategory == "NoCategory"
NoType == "None"

CategoryText ==
  [ Technology |-> CatTechnology,
    AITechnology |-> CatAITechnology,
    AIResearch |-> CatAIResearch ]

Categories == DOMAIN CategoryText

\* bound on the number of strategies of a source
MaxStrategies == 3

KnownTypes == {"rss", "autodiscover", "scrape"}

\* a strategy descriptor: its 'type' (or none), and whether the keys the
\* dispatch reads (rss_url / site_url / listing_url, link_regex) are present
Descriptors ==
  { [type |-> "rss", keys |-> TRUE], [type |-> "rss", keys |-> FALSE],
    [type |-> "autodiscover", keys |-> TRUE],
    [type |-> "scrape", keys |-> TRUE],
    [type |-> "bogus", keys |-> TRUE],
    [type |-> NoType, keys |-> TRUE] }

StrategyLists ==
  UNION { [1..n -> Descriptors] : n \in 0..MaxStrategies }

(***************************************************************************)
(* RSSNewsScraper.scrape_source                                            *)
(***************************************************************************)
\* the dispatch on strat.get('type'): is _run_rss/_run_autodiscover/_run_scrape called
Executes(strat) == strat.type \in KnownTypes /\ strat.keys

\* strat['rss_url'] etc. raises KeyError
DispatchRaises(strat) == strat.type \in KnownTypes /\ ~strat.keys

\* arts after the dispatch, before the filter
Dispatched(strat, y) == IF Executes(strat) THEN y ELSE <<>>

\* the categories with cfg['category'].lower().startswith('technology')
StartsWithTechnology_any == Categories

StartsWithTechnology ==
  { k \in Categories : StartsWith(Lower(CategoryText[k]), PrefixTechnology) }

\* ai_only and cfg['category'].lower().startswith('technology')
ShouldFilter(c, ai) == ai /\ c.category \in StartsWithTechnology

\* evaluating the filter condition raises KeyError: cfg has no 'category'
FilterRaises(c, ai) == ai /\ c.category = NoCategory

\* the pool articles for which is_ai_related(a.title, a.description or "") holds
AIRelated ==
  { a \in ArticleIds : is_ai_related(ArticlePool[a].title, ArticlePool[a].description) }

IsAI(a) == a \in AIRelated

PostFilter_none(c, ai, arts) == arts

\* arts = [a for a in arts if self.is_ai_related(a.title, a.description or "")]
PostFilter(c, ai, arts) ==
  IF ShouldFilter(c, ai) THEN SelectSeq(arts, IsAI) ELSE arts

\* one iteration of the for loop, with y what the strategy run returns
Iteration(c, ai, i, y) ==
  LET strat == c.strategies[i]
      err   == DispatchRaises(strat) \/ FilterRaises(c, ai)
  IN  [ i        |-> i,
        type     |-> strat.type,
        executed |-> Executes(strat),
        raw      |-> Dispatched(strat, y),
        err      |-> err,
        post     |-> IF err THEN <<>> ELSE PostFilter(c, ai, Dispatched(strat, y)) ]

Control_best_of_all(it) == "next"

Control_propagate(it) ==
  IF it.err THEN "raise"
  ELSE IF it.post # <<>> THEN "return" ELSE "next"

\* if arts: return arts / else: next strategy / except Exception: continue
Control(it) ==
  IF it.err THEN "next"
  ELSE IF it.post # <<>> THEN "return" ELSE "next"

NextIdx_skip(i) == i + 2

\* the for loop's step
NextIdx(i) == i + 1

SourceInit ==
  /\ known \in BOOLEAN
  /\ aiOnly \in BOOLEAN
  /\ cfg \in [category : Categories \cup {NoCategory}, strategies : StrategyLists]
  /\ ~known => (cfg = [category |-> "Technology", strategies |-> <<>>] /\ aiOnly)
  /\ state = "PENDING"
  /\ idx = 0
  /\ history = <<>>
  /\ result = <<>>
  /\ PipeIdle
  /\ CliIdle
  /\ NetIdle

\* scrape_source is called: the membership test and the entry of the loop
Begin ==
  /\ state = "PENDING"
  /\ IF ~known THEN state' = "UNKNOWN" /\ idx' = 0
     ELSE IF cfg.strategies = <<>> THEN state' = "EXHAUSTED" /\ idx' = 0
     ELSE state' = "TRYING" /\ idx' = 1
  /\ UNCHANGED <<known, cfg, aiOnly, history, result, pipeVars, cliVars, netVars>>

\* one iteration of "for strat in strategies"
RunStrategy ==
  /\ state = "TRYING"
  /\ \E y \in Yields :
       /\ Executes(cfg.strategies[idx]) \/ y = <<>>
       /\ LET it == Iteration(cfg, aiOnly, idx, y)
              c  == Control(it)
          IN  /\ history' = Append(history, it)
              /\ IF c = "return"
                 THEN state' = "SUCCEEDED" /\ result' = it.post /\ idx' = idx
                 ELSE IF c = "raise"
                 THEN state' = "RAISED" /\ result' = result /\ idx' = idx
                 ELSE IF NextIdx(idx) > Len(cfg.strategies)
                 THEN state' = "EXHAUSTED" /\ result' = <<>> /\ idx' = idx
                 ELSE state' = "TRYING" /\ result' = result /\ idx' = NextIdx(idx)
  /\ UNCHANGED <<known, cfg, aiOnly, pipeVars, cliVars, netVars>>

(***************************************************************************)
(* Properties of scrape_source                                             *)
(***************************************************************************)
\* an iteration that did not produce the source's result
Failed(h) == h.err \/ h.post = <<>>

\* after iteration k the orchestrator went on to the next strategy, or ran out
Proceeded(k) ==
  \/ k < Len(history)
  \/ state = "TRYING" /\ idx = k + 1
  \/ k = Len(cfg.strategies) /\ state = "EXHAUSTED" /\ result = <<>>

Range(s) == { s[i] : i \in 1..Len(s) }

\* C1: first-success-wins. Once strategy i has yielded at least one article
\* that passes the active filter, no strategy j > i is executed and the
\* returned list is exactly strategy i's post-filter articles.
C1_FirstSuccessWins ==
  \A k \in 1..Len(history) :
    (~history[k].err /\ history[k].post # <<>>) =>
      /\ k = Len(history)
      /\ \A j \in 1..Len(history) : history[j].i <= history[k].i
      /\ state = "SUCCEEDED"
      /\ result = history[k].post

C1_Witness ==
  /\ state = "SUCCEEDED"
  /\ Len(cfg.strategies) = 3
  /\ Len(history) = 1
  /\ history[1].raw = <<"gpu", "chips">>
  /\ result = <<"chips">>

\* C2: the state machine PENDING -> TRYING(1) -> ... : strategies are
\* attempted strictly in configured order, strategy i+1 only after strategy i
\* ended with zero post-filter articles or an error, each at most once, and a
\* configured source ends EXHAUSTED with an empty list if and only if every
\* configured strategy failed.
C2_OrderedStateMachine ==
  /\ state \in {"PENDING", "TRYING", "SUCCEEDED", "EXHAUSTED", "UNKNOWN"}
  /\ \A k \in 1..Len(history) : history[k].i = k
  /\ \A k \in 2..Len(history) : Failed(history[k - 1])
  /\ Len(history) <= Len(cfg.strategies)
  /\ state = "PENDING" => history = <<>>
  /\ state = "TRYING" => idx = Len(history) + 1 /\ idx <= Len(cfg.strategies)
  /\ state = "SUCCEEDED" => ~Failed(history[Len(history)])
  /\ (known /\ state \in {"SUCCEEDED", "EXHAUSTED"}) =>
       ( state = "EXHAUSTED" <=>
           /\ Len(history) = Len(cfg.strategies)
           /\ \A k \in 1..Len(history) : Failed(history[k]) )
  /\ state = "EXHAUSTED" => result = <<>>

C2_Witness ==
  /\ state = "EXHAUSTED"
  /\ Len(history) = 3
  /\ history[1].raw # <<>>
  /\ history[2].err
  /\ history[3].executed

\* C3: an error raised inside a strategy (an unknown strategy type and a
\* descriptor missing a required key included) never leaves scrape_source: the
\* strategy counts as having yielded nothing and the next one is tried.
C3_ErrorsAreLocal ==
  /\ state # "RAISED"
  /\ \A k \in 1..Len(history) :
       (history[k].err \/ history[k].type \notin KnownTypes) =>
         /\ Proceeded(k)
         /\ ~(state = "SUCCEEDED" /\ Len(history) = k)

C3_Witness ==
  /\ state = "SUCCEEDED"
  /\ Len(history) = 3
  /\ history[1].type = "rss" /\ history[1].err
  /\ history[2].type = "bogus"

\* the pool articles whose title+description holds an AI keyword, read off
\* the texts: "OpenAI ships model" holds 'openai', "It uses ML" holds ' ml '
MatchesKeyword(a) == a \in {"openai", "chips"}

\* a source of the general technology category under AI-only mode
FilteredSource == aiOnly /\ cfg.category = "Technology"

\* C4: the AI-only filter is applied before the success check. Under AI-only
\* mode for a general-technology source, a strategy that yields articles of
\* which none matches an AI keyword is treated as failed, the next strategy is
\* tried and none of the unfiltered articles is returned.
C4_FilterBeforeSuccessCheck ==
  \A k \in 1..Len(history) :
    ( /\ FilteredSource
      /\ history[k].raw # <<>>
      /\ \A a \in Range(history[k].raw) : ~MatchesKeyword(a) ) =>
        /\ Proceeded(k)
        /\ ~(state = "SUCCEEDED" /\ Len(history) = k)

C4_Witness ==
  /\ state = "SUCCEEDED"
  /\ FilteredSource
  /\ Len(history) = 2
  /\ history[1].raw = <<"gpu", "trails">>
  /\ result = <<"openai">>

\* C5: scope of the AI-only filter. An article without an AI keyword is
\* excluded from the result of a general-technology source under AI-only
\* mode; it is included unchanged for another category or with AI-only off;
\* every article returned for a filtered source matches a keyword.
C5_FilterScope ==
  state = "SUCCEEDED" =>
    LET raw == history[Len(history)].raw
    IN  IF FilteredSource
        THEN /\ result = SelectSeq(raw, MatchesKeyword)
             /\ \A a \in Range(result) : MatchesKeyword(a)
        ELSE result = raw

C5_Witness ==
  /\ state = "SUCCEEDED"
  /\ ~FilteredSource /\ aiOnly /\ cfg.category = "AITechnology"
  /\ result = <<"gpu">>

SourceNext == Begin \/ RunStrategy

SpecSource == SourceInit /\ [][SourceNext]_vars

(***************************************************************************)
(* clean_text (both files). A sequence element stands for one character;   *)
(* the characters outside ASCII are written by name.                       *)
(***************************************************************************)
Whitespace == {" ", "\n", "\t"}

\* where the tag opened at s[i] = "<" ends under <[^>]+> (0: no match at i)
TagEnd(s, i) ==
  IF \E j \in (i + 1)..Len(s) : s[j] = ">"
  THEN LET j == CHOOSE j \in (i + 1)..Len(s) :
                  s[j] = ">" /\ \A m \in (i + 1)..(j - 1) : s[m] # ">"
       IN  IF j >= i + 2 THEN j ELSE 0
  ELSE 0

RECURSIVE StripTagsFrom(_, _)
StripTagsFrom(s, i) ==
  IF i > Len(s) THEN <<>>
  ELSE IF s[i] = "<" /\ TagEnd(s, i) # 0 THEN StripTagsFrom(s, TagEnd(s, i) + 1)
  ELSE <<s[i]>> \o StripTagsFrom(s, i + 1)

\* re.sub(r'<[^>]+>', '', text)
StripTags(s) == StripTagsFrom(s, 1)

RECURSIVE ReplaceFrom(_, _, _, _)
ReplaceFrom(s, i, pat, rep) ==
  IF i > Len(s) THEN <<>>
  ELSE IF i + Len(pat) - 1 <= Len(s) /\ SubSeq(s, i, i + Len(pat) - 1) = pat
  THEN rep \o ReplaceFrom(s, i + Len(pat), pat, rep)
  ELSE <<s[i]>> \o ReplaceFrom(s, i + 1, pat, rep)

\* str.replace(pat, rep)
Replace(s, pat, rep) == ReplaceFrom(s, 1, pat, rep)

EntAmp == <<"&", "a", "m", "p", ";">>
EntLt == <<"&", "l", "t", ";">>
EntGt == <<"&", "g", "t", ";">>
EntQuot == <<"&", "q", "u", "o", "t", ";">>
EntApos == <<"&", "#", "8", "2", "1", "7", ";">>
EntEnDash == <<"&", "#", "8", "2", "1", "1", ";">>
EntEmDash == <<"&", "#", "8", "2", "1", "2", ";">>

\* what &#8211; and &#8212; become: three characters each in
\* rss_news_scraper.py, one character each in category_news_scraper.py
RssDashes == [en |-> <<"a-circumflex", "euro", "left-dquote">>,
              em |-> <<"a-circumflex", "euro", "right-dquote">>]
CatDashes == [en |-> <<"en-dash">>, em |-> <<"em-dash">>]

\* the chain of .replace calls
DecodeEntities(s, dashes) ==
  Replace(Replace(Replace(Replace(Replace(Replace(Replace(s,
    EntAmp, <<"&">>), EntLt, <<"<">>), EntGt, <<">">>), EntQuot, <<"\"">>),
    EntApos, <<"'">>), EntEnDash, dashes.en), EntEmDash, dashes.em)

RECURSIVE LStrip(_)
LStrip(s) == IF s # <<>> /\ Head(s) \in Whitespace THEN LStrip(Tail(s)) ELSE s

RECURSIVE RStrip(_)
RStrip(s) ==
  IF s # <<>> /\ s[Len(s)] \in Whitespace THEN RStrip(SubSeq(s, 1, Len(s) - 1)) ELSE s

\* str.strip()
Strip(s) == RStrip(LStrip(s))

RECURSIVE CollapseFrom(_, _)
CollapseFrom(s, i) ==
  IF i > Len(s) THEN <<>>
  ELSE IF s[i] \in Whitespace
  THEN IF i > 1 /\ s[i - 1] \in Whitespace
       THEN CollapseFrom(s, i + 1)
       ELSE <<" ">> \o CollapseFrom(s, i + 1)
  ELSE <<s[i]>> \o CollapseFrom(s, i + 1)

\* re.sub(r'\s+', ' ', text)
CollapseWhitespace(s) == CollapseFrom(s, 1)

CleanText(text, dashes) ==
  IF text = <<>> THEN <<>>
  ELSE CollapseWhitespace(Strip(DecodeEntities(StripTags(text), dashes)))

\* clean_text of rss_news_scraper.py
clean_text_rss(text) == CleanText(text, RssDashes)

\* clean_text of category_news_scraper.py
clean_text_cat(text) == CleanText(text, CatDashes)

(***************************************************************************)
(* Inputs of the article loops: feed entries and candidate links, with the *)
(* page behind each link                                                   *)
(***************************************************************************)
RawTagged == <<"<", "b", ">", "H", "i", "<", "/", "b", ">">>
RawAmp == <<"A", " ", "&", "a", "m", "p", ";", " ", "B">>
RawAINews == <<"A", "I", " ", "n", "e", "w", "s">>
RawLong == <<"B", "i", "g", " ", "n", "e", "w", "s", " ", "t", "o", "d", "a", "y">>
RawSpaced == <<" ", " ", "B", "i", "g", " ", " ", " ", "n", "e", "w", "s", " ", "t", "o", "d", "a", "y", " ">>
RawDash == <<"G", "o", "&", "#", "8", "2", "1", "1", ";", "U", "p">>

\* raw title texts: entry.title of a feed entry, or the title extract_meta
\* finds in the page (before its clean_text)
RawTitle ==
  [ empty |-> <<>>, tagged |-> RawTagged, amp |-> RawAmp,
    ainews |-> RawAINews, long |-> RawLong, spaced |-> RawSpaced, dash |-> RawDash ]

TitleIds == DOMAIN RawTitle

CleanTitleRss == [t \in TitleIds |-> clean_text_rss(RawTitle[t])]
CleanTitleCat == [t \in TitleIds |-> clean_text_cat(RawTitle[t])]

\* len(content) > 3000 / content[:3000]
BodyCap == 3000
\* len("...")
EllipsisLen == 3
\* len(title) < 6
MinTitleLen == 6
\* len(meta["title"]) > 10
SiteTitleOver == 10

\* An item: the raw title, the link ("" when the entry has none), what
\* get_soup(link) and the extraction do (ok: a page; fail: get_soup returns
\* None; raise: an exception while the page is processed), the page's
\* <link rel=canonical> ("" when absent) and the length of the cleaned body
\* text the extractor returns for the page.
ItemPool ==
  [ a |-> [title |-> "long",   url |-> "u1", fetch |-> "ok",    canon |-> "",   body |-> 3001],
    b |-> [title |-> "ainews", url |-> "u2", fetch |-> "ok",    canon |-> "u1", body |-> 3000],
    c |-> [title |-> "tagged", url |-> "u3", fetch |-> "ok",    canon |-> "",   body |-> 120],
    d |-> [title |-> "long",   url |-> "u4", fetch |-> "fail",  canon |-> "",   body |-> 0],
    e |-> [title |-> "spaced", url |-> "u5", fetch |-> "raise", canon |-> "",   body |-> 0],
    f |-> [title |-> "amp",    url |-> "u6", fetch |-> "ok",    canon |-> "",   body |-> 0],
    g |-> [title |-> "long",   url |-> "",   fetch |-> "ok",    canon |-> "",   body |-> 0],
    h |-> [title |-> "empty",  url |-> "u8", fetch |-> "ok",    canon |-> "",   body |-> 120],
    i |-> [title |-> "dash",   url |-> "u9", fetch |-> "ok",    canon |-> "",   body |-> 120] ]

ItemIds == DOMAIN ItemPool

\* bound on the number of feed entries / candidate links
MaxItems == 3
\* bound on max_articles
MaxQuota == 2

ItemLists == UNION { [1..n -> ItemIds] : n \in 0..MaxItems }

FeedPipes == {"parse_feed_once", "scrape_rss_feed"}
ListingPipes == {"scrape_listing_to_articles", "scrape_website_articles"}

Min(a, b) == IF a <= b THEN a ELSE b

\* the body text as stored: its length in characters of page text, and the
\* number of ellipsis markers appended to it
Content(n) == [text |-> n, marks |-> 0]

\* if len(content) > 3000: content = content[:3000] + "..."
Truncate(n) ==
  IF n > BodyCap THEN [text |-> BodyCap, marks |-> 1] ELSE Content(n)

ContentLen(c) == c.text + EllipsisLen * c.marks

\* what one loop iteration does: was a page fetched, was an article appended
\* (and which), did the iteration end in time.sleep
Skipped(fetched, slept) ==
  [fetched |-> fetched, emitted |-> FALSE, slept |-> slept, art |-> <<>>]

Emitted(title, url, content) ==
  [fetched |-> TRUE, emitted |-> TRUE, slept |-> TRUE,
   art |-> <<[title |-> title, url |-> url, content |-> content]>>]

\* parse_feed_once: the body of "for entry in feed.entries[:max_articles]"
ParseFeedOnceEntry(it) ==
  LET title == CleanTitleRss[it.title]
  IN  IF title = <<>> \/ Len(title) < MinTitleLen THEN Skipped(FALSE, FALSE)
      ELSE IF it.url = "" THEN Skipped(FALSE, FALSE)
      ELSE IF it.fetch = "raise" THEN Skipped(TRUE, FALSE)
      ELSE IF it.fetch = "fail" THEN Emitted(title, it.url, Content(0))
      ELSE Emitted(title, it.url, Content(it.body))

\* scrape_listing_to_articles: the body of "for u in candidate_urls"
ScrapeListingEntry(it) ==
  LET title == CleanTitleRss[it.title]
  IN  IF it.fetch = "fail" THEN Skipped(TRUE, FALSE)
      ELSE IF it.fetch = "raise" THEN Skipped(TRUE, FALSE)
      ELSE IF title = <<>> \/ Len(title) < MinTitleLen THEN Skipped(TRUE, FALSE)
      ELSE Emitted(title, IF it.canon # "" THEN it.canon ELSE it.url, Content(it.body))

\* scrape_rss_feed: the body of "for entry in feed.entries[:max_articles]"
ScrapeRssFeedEntry(it) ==
  LET title == CleanTitleCat[it.title]
  IN  IF title = <<>> \/ it.url = "" THEN Skipped(FALSE, FALSE)
      ELSE IF it.fetch = "raise" THEN Skipped(TRUE, FALSE)
      ELSE IF it.fetch = "fail" THEN Emitted(title, it.url, Content(0))
      ELSE Emitted(title, it.url, Truncate(it.body))

\* scrape_website_articles: the body of "for url in article_links[:max_articles]"
ScrapeWebsiteEntry(it) ==
  LET title == CleanTitleCat[it.title]
  IN  IF it.fetch = "fail" THEN Skipped(TRUE, FALSE)
      ELSE IF it.fetch = "raise" THEN Skipped(TRUE, FALSE)
      ELSE IF title # <<>> /\ Len(title) > SiteTitleOver
      THEN Emitted(title, it.url, Truncate(it.body))
      ELSE Skipped(TRUE, TRUE)

AfterIteration_break(i, r, n) == IF r.emitted THEN i + 1 ELSE n + 1

\* where the loop goes after an iteration: "continue", the except handler's
\* "continue" and the normal end of the body all go on to the next item
AfterIteration(i, r, n) == i + 1

LoopEnd_all(p, n, quota) == n

\* the items a loop walks: entries[:max_articles], article_links[:max_articles],
\* or all of candidate_urls
LoopEnd(p, n, quota) ==
  IF p = "scrape_listing_to_articles" THEN n ELSE Min(n, quota)

\* "if len(articles) >= max_articles: break" of scrape_listing_to_articles
QuotaReached(p, arts, quota) ==
  p = "scrape_listing_to_articles" /\ Len(arts) >= quota

Max(a, b) == IF a >= b THEN a ELSE b

NoDuplicateUrl(its) ==
  \A i, j \in 1..Len(its) : ItemPool[its[i]].url = ItemPool[its[j]].url => i = j

PipeInit ==
  /\ SourceIdle
  /\ CliIdle
  /\ NetIdle
  /\ pipe \in FeedPipes \cup ListingPipes
  /\ maxArticles \in 0..MaxQuota
  /\ items \in ItemLists
  \* an exception in feedparser.parse(rss_url) or in reading feed.entries leaves no
  \* entry to loop over; the listing paths load no feed
  /\ feedload \in {"ok", "raise"}
  /\ feedload = "raise" => (pipe \in FeedPipes /\ items = <<>>)
  \* candidate links are resolved URLs without duplicates, collected up to
  \* 3 * max_articles (rss) or 2 * max_articles (category)
  /\ pipe \in ListingPipes =>
       /\ \A i \in 1..Len(items) : ItemPool[items[i]].url # ""
       /\ NoDuplicateUrl(items)
  /\ pipe = "scrape_listing_to_articles" => Len(items) <= Max(3 * maxArticles, 1)
  /\ pipe = "scrape_website_articles" => Len(items) <= Max(2 * maxArticles, 1)
  /\ pos = 1
  /\ articles = <<>>
  /\ trail = <<>>
  /\ pstate = "running"

LoopRuns ==
  /\ pstate = "running"
  /\ feedload = "ok"
  /\ pos <= LoopEnd(pipe, Len(items), maxArticles)
  /\ ~QuotaReached(pipe, articles, maxArticles)

Iterate(r) ==
  /\ articles' = articles \o r.art
  /\ trail' = Append(trail, [i |-> pos, fetched |-> r.fetched, emitted |-> r.emitted,
                             slept |-> r.slept, art |-> r.art])
  /\ pos' = AfterIteration(pos, r, Len(items))
  /\ UNCHANGED <<pipe, feedload, items, maxArticles, pstate, srcVars, cliVars, netVars>>

ParseFeedOnceStep ==
  /\ pipe = "parse_feed_once" /\ LoopRuns
  /\ Iterate(ParseFeedOnceEntry(ItemPool[items[pos]]))

ScrapeListingStep ==
  /\ pipe = "scrape_listing_to_articles" /\ LoopRuns
  /\ Iterate(ScrapeListingEntry(ItemPool[items[pos]]))

ScrapeRssFeedStep ==
  /\ pipe = "scrape_rss_feed" /\ LoopRuns
  /\ Iterate(ScrapeRssFeedEntry(ItemPool[items[pos]]))

ScrapeWebsiteStep ==
  /\ pipe = "scrape_website_articles" /\ LoopRuns
  /\ Iterate(ScrapeWebsiteEntry(ItemPool[items[pos]]))

OnFeedError_propagate == "raised"

\* the outer "except Exception as e: logger.error(...)", followed by "return articles"
OnFeedError == "done"

\* loading the feed raises, in parse_feed_once or scrape_rss_feed
FeedFails ==
  /\ pstate = "running"
  /\ pipe \in FeedPipes
  /\ feedload = "raise"
  /\ pstate' = OnFeedError
  /\ UNCHANGED <<pipe, feedload, items, maxArticles, pos, articles, trail, srcVars, cliVars,
                 netVars>>

\* return articles
PipeReturn ==
  /\ pstate = "running"
  /\ feedload = "ok"
  /\ ~LoopRuns
  /\ pstate' = "done"
  /\ UNCHANGED <<pipe, feedload, items, maxArticles, pos, articles, trail, srcVars, cliVars, netVars>>

(***************************************************************************)
(* Properties of the article loops                                         *)
(***************************************************************************)
\* the item iteration k of the loop worked on
ItemOf(k) == ItemPool[items[trail[k].i]]

\* C6: every emitted Article has a non-empty URL and a title of at least
\* MIN_TITLE_LEN characters, in every pipeline (feed path and listing path of
\* both scrapers).
C6_EmittedTitleAndUrl ==
  \A k \in 1..Len(articles) :
    /\ articles[k].url # ""
    /\ Len(articles[k].title) >= MinTitleLen

\* C7: the body content of every emitted Article is at most the cap plus one
\* ellipsis marker; a cleaned body longer than the cap is cut to the cap with
\* the marker appended exactly once, a body within the cap is left unchanged
\* without a marker.
C7_BodyCapped ==
  \A k \in 1..Len(trail) :
    (trail[k].emitted /\ ItemOf(k).fetch = "ok") =>
      LET c == trail[k].art[1].content
      IN  /\ ContentLen(c) <= BodyCap + EllipsisLen
          /\ IF ItemOf(k).body > BodyCap
             THEN c = [text |-> BodyCap, marks |-> 1]
             ELSE c = [text |-> ItemOf(k).body, marks |-> 0]

\* every item of the loop's range was worked on, unless the quota ended the loop
LaterItemsProcessed ==
  /\ \A k \in 1..Len(trail) : trail[k].i = k
  /\ pstate = "done" =>
       \/ Len(trail) = LoopEnd(pipe, Len(items), maxArticles)
       \/ QuotaReached(pipe, articles, maxArticles)

\* C10 as claimed: a failure to fetch or parse a single article page skips
\* that article (no Article is emitted for it) and every later article of the
\* same feed or listing is still processed.
C10_FailedPageSkipped ==
  /\ \A k \in 1..Len(trail) :
       (trail[k].fetched /\ ItemOf(k).fetch \in {"fail", "raise"}) => ~trail[k].emitted
  /\ LaterItemsProcessed

\* C10 as amended: a failure to fetch or process a single article page is
\* recovered locally and every later article of the same feed or listing is
\* still processed. An exception raised while the page is processed skips the
\* article on every path; a failed fetch skips it on the listing paths, and on
\* the feed paths the Article is still emitted from the feed entry, with empty
\* content.
C10_FailureRecoveredLocally ==
  /\ \A k \in 1..Len(trail) :
       /\ (trail[k].fetched /\ ItemOf(k).fetch = "raise") => ~trail[k].emitted
       /\ (trail[k].fetched /\ ItemOf(k).fetch = "fail") =>
            IF pipe \in ListingPipes
            THEN ~trail[k].emitted
            ELSE /\ trail[k].emitted
                 /\ trail[k].art[1].content = Content(0)
                 /\ trail[k].art[1].url = ItemOf(k).url
  /\ LaterItemsProcessed

C10_Witness ==
  /\ pstate = "done"
  /\ pipe = "parse_feed_once"
  /\ Len(trail) = 2
  /\ ItemOf(1).fetch = "fail" /\ trail[1].emitted
  /\ trail[2].emitted /\ ItemOf(2).fetch = "ok"

\* C18: the URL is a unique key: no two Articles emitted by one run of a feed or
\* listing loop share a URL, also when the feed lists one link twice or when two
\* candidates of a listing have the same canonical URL
C18_UrlUnique ==
  \A i, j \in 1..Len(articles) : articles[i].url = articles[j].url => i = j

\* C19: every fetch of an article page is followed by a pacing delay before the
\* next page is fetched, also when the fetched article is then skipped
C19_PacedFetches ==
  \A k, n \in 1..Len(trail) :
    (k < n /\ trail[k].fetched /\ trail[n].fetched) =>
      \E s \in k..(n - 1) : trail[s].slept

\* C16: parse_feed_once and scrape_rss_feed never raise to their caller, and a feed
\* that fails to load or parse, or that has no entry, gives an empty article list
C16_FeedNeverRaises ==
  /\ pstate # "raised"
  /\ (pstate = "done" /\ pipe \in FeedPipes /\ (feedload = "raise" \/ items = <<>>)) =>
       articles = <<>>

\* scrape_rss_feed has returned from a feed that failed to load
C16_Witness ==
  /\ pstate = "done"
  /\ pipe = "scrape_rss_feed"
  /\ feedload = "raise"
  /\ articles = <<>>

\* the Articles of the first k iterations, in the order of the iterations
RECURSIVE ArtsOfTrail(_)
ArtsOfTrail(k) == IF k = 0 THEN <<>> ELSE ArtsOfTrail(k - 1) \o trail[k].art

\* C28: for every max_articles >= 0 the list one loop returns holds at most
\* max_articles Articles, in the order in which their entries or candidate links
\* were discovered
C28_QuotaInDiscoveryOrder ==
  /\ Len(articles) <= maxArticles
  /\ \A k, n \in 1..Len(trail) : k < n => trail[k].i < trail[n].i
  /\ articles = ArtsOfTrail(Len(trail))

\* a listing with more usable candidates than the quota, the first of them skipped
C28_Witness ==
  /\ pstate = "done"
  /\ pipe = "scrape_listing_to_articles"
  /\ maxArticles = 1
  /\ Len(items) = 3
  /\ Len(trail) = 2
  /\ ~trail[1].emitted
  /\ Len(articles) = 1
  /\ ScrapeListingEntry(ItemPool[items[3]]).emitted

PipeNext ==
  \/ FeedFails
  \/ ParseFeedOnceStep
  \/ ScrapeListingStep
  \/ ScrapeRssFeedStep
  \/ ScrapeWebsiteStep
  \/ PipeReturn

SpecPipe == PipeInit /\ [][PipeNext]_vars

(***************************************************************************)
(* news_scraper.py main_cli with EnhancedCategoryScraper                   *)
(***************************************************************************)
\* category names of categories_config.json, in file order
ConfigNames == <<"AI/Tech", "Marketing", "Sports">>

\* a configuration entry: with its 'urls' list, or lacking it
EntryKinds == {"ok", "nourls"}

\* names a user can pass with --category
SelectableNames == {"AI/Tech", "Marketing", "Sports", "Unknown"}

\* bound on the number of --category flags
MaxSelected == 2

\* the article lists scraping one category can return
CategoryYields == { <<>>, <<"x">>, <<"x", "y">> }

Configs ==
  UNION { [S -> EntryKinds] : S \in SUBSET Range(ConfigNames) }

\* list(self.categories.keys())
ConfigKeys(c) == SelectSeq(ConfigNames, LAMBDA n : n \in DOMAIN c)

\* d[k] = v
DictSet(d, k, v) == [x \in DOMAIN d \cup {k} |-> IF x = k THEN v ELSE d[x]]

RECURSIVE SumLens(_, _)
SumLens(d, S) ==
  IF S = {} THEN 0
  ELSE LET k == CHOOSE k \in S : TRUE IN Len(d[k]) + SumLens(d, S \ {k})

\* sum(len(articles) for articles in results.values())
TotalArticles(d) == SumLens(d, DOMAIN d)

\* EnhancedCategoryScraper.scrape_category: "found" (a list comes back),
\* "unknown" (not in self.categories: []), or "raise" (KeyError on ['urls'])
ScrapeCategoryOutcome(c, name) ==
  IF name \notin DOMAIN c THEN "unknown"
  ELSE IF name = "AI/Tech" THEN "found"
  ELSE IF c[name] = "nourls" THEN "raise"
  ELSE "found"

\* "if results:" on a dict
ResultsTruthy(d) == DOMAIN d # {}

CliInit ==
  /\ SourceIdle
  /\ PipeIdle
  /\ NetIdle
  /\ config \in Configs
  /\ listFlag \in BOOLEAN
  /\ selected \in UNION { [1..n -> SelectableNames] : n \in 0..MaxSelected }
  /\ listFlag => selected = <<>>
  /\ todo = <<>>
  /\ cpos = 0
  /\ results = EmptyDict
  /\ files = {}
  /\ stdout = <<>>
  /\ stderr = <<>>
  /\ exitCode = "none"
  /\ cstate = "start"

\* --list-categories: list_available_categories() and return
ListCategories ==
  /\ cstate = "start" /\ listFlag
  /\ stderr' = Append(stderr, "categories")
  /\ exitCode' = 0
  /\ cstate' = "done"
  /\ UNCHANGED <<config, listFlag, selected, todo, cpos, results, files, stdout,
                 srcVars, pipeVars, netVars>>

\* the categories to scrape are determined and the scraper is constructed
CliStart ==
  /\ cstate = "start" /\ ~listFlag
  /\ todo' = IF selected = <<>> THEN ConfigKeys(config) ELSE selected
  /\ stderr' = Append(stderr, "processing")
  /\ cpos' = 1
  /\ cstate' = "scraping"
  /\ UNCHANGED <<config, listFlag, selected, results, files, stdout, exitCode,
                 srcVars, pipeVars, netVars>>

SavedDuringLoop_each(res) == DOMAIN res

\* the category files written by one iteration of the loop over the categories:
\* the loop body only calls scrape_category and stores its list in results
SavedDuringLoop(res) == {}

\* one iteration of the loop over the categories: scraper.scrape_category(...)
ScrapeCategory ==
  /\ cstate = "scraping" /\ cpos <= Len(todo)
  /\ LET name == todo[cpos]
         o    == ScrapeCategoryOutcome(config, name)
     IN  \E y \in CategoryYields :
           /\ o = "found" \/ y = <<>>
           /\ IF o = "raise"
              THEN \* except Exception: error message, sys.exit(1)
                   /\ stderr' = stderr \o <<"scraping", "error">>
                   /\ exitCode' = 1
                   /\ cstate' = "done"
                   /\ UNCHANGED <<results, cpos, files>>
              ELSE /\ stderr' = Append(stderr, IF o = "unknown" THEN "not_found" ELSE "scraping")
                   /\ results' = DictSet(results, name, y)
                   /\ files' = files \cup SavedDuringLoop(results')
                   /\ cpos' = cpos + 1
                   /\ UNCHANGED <<exitCode, cstate>>
  /\ UNCHANGED <<config, listFlag, selected, todo, stdout, srcVars, pipeVars, netVars>>

SummaryStream_stdout == "stdout"

\* the stream that EnhancedCategoryScraper.print_summary writes to: sys.stderr.write
SummaryStream == "stderr"

\* the stream that print_final_json writes to: sys.stdout.write(json_output)
JsonStream == "stdout"

\* of the writes ws, in order, what goes to the stream s
WritesTo(s, ws) ==
  LET OnStream(w) == w.stream = s
      sel == SelectSeq(ws, OnStream)
  IN  [i \in 1..Len(sel) |-> sel[i].tag]

\* what main_cli writes after the loop: print_summary, the saving message before
\* save_results, then print_final_json and the success message, or the message
\* that no article was found
FinalWrites(truthy) ==
  <<[stream |-> SummaryStream, tag |-> "summary"], [stream |-> "stderr", tag |-> "saving"]>>
  \o (IF truthy
      THEN <<[stream |-> JsonStream, tag |-> "json"], [stream |-> "stderr", tag |-> "success"]>>
      ELSE <<[stream |-> "stderr", tag |-> "no_articles"]>>)

\* after the loop: print_summary, save_results, then the JSON and the success
\* message, or the no-articles message and sys.exit(1)
Finish ==
  /\ cstate = "scraping" /\ cpos > Len(todo)
  /\ files' = DOMAIN results
  /\ stdout' = stdout \o WritesTo("stdout", FinalWrites(ResultsTruthy(results)))
  /\ stderr' = stderr \o WritesTo("stderr", FinalWrites(ResultsTruthy(results)))
  /\ exitCode' = IF ResultsTruthy(results) THEN 0 ELSE 1
  /\ cstate' = "done"
  /\ UNCHANGED <<config, listFlag, selected, todo, cpos, results, srcVars, pipeVars, netVars>>

\* C8: a run that discovers zero articles across all categories is reported
\* as a failure (exit status, no success message), distinguishable from a run
\* that produced at least one article, whatever categories were selected.
C8_ZeroArticlesIsFailure ==
  (cstate = "done" /\ ~listFlag /\ TotalArticles(results) = 0) =>
    /\ exitCode = 1
    /\ \A i \in 1..Len(stderr) : stderr[i] # "success"

\* a selected category whose configuration entry can be scraped
WellConfigured(name) ==
  name \in DOMAIN config /\ (name = "AI/Tech" \/ config[name] = "ok")

\* C9: a missing or malformed configuration entry for one category yields
\* zero results for that category only; the remaining selected categories are
\* still scraped and their results saved and emitted.
C9_ConfigFailureIsolated ==
  (cstate = "done" /\ ~listFlag) =>
    \A i \in 1..Len(todo) :
      IF WellConfigured(todo[i])
      THEN /\ todo[i] \in DOMAIN results
           /\ todo[i] \in files
           /\ stdout = <<"json">>
      ELSE todo[i] \in DOMAIN results => results[todo[i]] = <<>>

\* C21: the results are persisted only after every selected category has been
\* scraped: no category file and no result JSON is written while a category is
\* still to be scraped, and a run aborted by an error during scraping writes nothing
C21_PersistAfterScraping ==
  /\ (cstate = "scraping" /\ cpos <= Len(todo)) => (files = {} /\ stdout = <<>>)
  /\ (files # {} \/ stdout # <<>>) => (cstate = "done" /\ cpos > Len(todo))
  /\ (cstate = "done" /\ ~listFlag /\ cpos <= Len(todo)) =>
       (exitCode = 1 /\ files = {} /\ stdout = <<>>)

\* the run was aborted at its second category, after the first one gave articles
C21_Witness ==
  /\ cstate = "done"
  /\ Len(todo) = 2
  /\ cpos = 2
  /\ exitCode = 1
  /\ todo[1] \in DOMAIN results /\ results[todo[1]] # <<>>
  /\ files = {}
  /\ stdout = <<>>

\* C20: in one run of main_cli the standard output receives nothing but the result
\* JSON, written at most once, and every summary, progress and error message goes
\* to the standard error
C20_StdoutOnlyJson ==
  /\ stdout \in {<<>>, <<"json">>}
  /\ \A i \in 1..Len(stderr) : stderr[i] # "json"
  /\ cstate = "done" =>
       \/ listFlag
       \/ exitCode = 1 /\ stdout = <<>> /\ stderr[Len(stderr)] \in {"error", "no_articles"}
       \/ /\ exitCode = 0 /\ stdout = <<"json">>
          /\ \E i, j \in 1..Len(stderr) : stderr[i] = "summary" /\ stderr[j] = "success"

\* a run over two categories ended with the JSON on the standard output and the
\* summary and the success message on the standard error
C20_Witness ==
  /\ cstate = "done"
  /\ Len(todo) = 2
  /\ stdout = <<"json">>
  /\ \E i, j \in 1..Len(stderr) : stderr[i] = "summary" /\ stderr[j] = "success"

CliNext == ListCategories \/ CliStart \/ ScrapeCategory \/ Finish

SpecCli == CliInit /\ [][CliNext]_vars

(***************************************************************************)
(* get_soup: one page fetch, in rss_news_scraper.py and in                 *)
(* category_news_scraper.py                                                *)
(***************************************************************************)
\* the timeout, in seconds, that get_soup of rss_news_scraper.py passes to SESSION.get
RequestTimeout == 15

\* no timeout argument: requests then waits for the host without limit
NoTimeout == <<>>

\* "if r.status_code >= 400" of rss_news_scraper.py
ErrorStatusFrom == 400

\* what the remote host does with one request: it answers with a status code,
\* the connection fails, or it accepts the connection and never answers
Statuses == {200, 204, 399, 400, 404, 503, 599, 600, 999}
Responses ==
  [transport : {"response"}, status : Statuses]
    \cup [transport : {"connection_error", "no_response"}, status : {0}]

\* SESSION.get(url, timeout=t): the Response, an exception of requests, or no return at all
SessionGet(resp, t) ==
  IF resp.transport = "response" THEN "response"
  ELSE IF resp.transport = "connection_error" THEN "exception"
  ELSE IF t = NoTimeout THEN "hang"
  ELSE "exception"

\* response.raise_for_status(): HTTPError for the 4xx and 5xx codes only
RaiseForStatus(status) == 400 <= status /\ status < 600

\* get_soup of rss_news_scraper.py
GetSoupRss(resp) ==
  LET r == SessionGet(resp, <<RequestTimeout>>)
      outcome == IF r = "hang" THEN "hang"
                 ELSE IF r = "exception" THEN "None"
                 ELSE IF resp.status >= ErrorStatusFrom THEN "None"
                 ELSE "soup"
  IN  [impl |-> "rss", timeout |-> <<RequestTimeout>>, resp |-> resp, outcome |-> outcome]

\* get_soup of category_news_scraper.py: SESSION.get(url) has no timeout argument,
\* and the attribute s.timeout that make_session sets is one requests never reads
GetSoupCat(resp) ==
  LET r == SessionGet(resp, NoTimeout)
      outcome == IF r = "hang" THEN "hang"
                 ELSE IF r = "exception" THEN "None"
                 ELSE IF RaiseForStatus(resp.status) THEN "None"
                 ELSE "soup"
  IN  [impl |-> "category", timeout |-> NoTimeout, resp |-> resp, outcome |-> outcome]

\* how many fetches one behaviour follows
MaxFetches == 2

\* a fetch that never returns blocks the single thread of the program
Blocked == \E i \in 1..Len(fetches) : fetches[i].outcome = "hang"

FetchInit ==
  /\ SourceIdle
  /\ PipeIdle
  /\ CliIdle
  /\ NetIdle

FetchRss ==
  /\ state = "idle" /\ pstate = "idle" /\ cstate = "idle" /\ dstate = "idle"
  /\ lstate = "idle"
  /\ Len(fetches) < MaxFetches
  /\ ~Blocked
  /\ \E resp \in Responses : fetches' = Append(fetches, GetSoupRss(resp))
  /\ UNCHANGED <<srcVars, pipeVars, cliVars, discVars, candVars, chainVars, pageVars>>

FetchCategory ==
  /\ state = "idle" /\ pstate = "idle" /\ cstate = "idle" /\ dstate = "idle"
  /\ lstate = "idle"
  /\ Len(fetches) < MaxFetches
  /\ ~Blocked
  /\ \E resp \in Responses : fetches' = Append(fetches, GetSoupCat(resp))
  /\ UNCHANGED <<srcVars, pipeVars, cliVars, discVars, candVars, chainVars, pageVars>>

\* the host's answer is a failure for the caller
IsFetchError(resp) ==
  resp.transport # "response" \/ resp.status >= 400

\* C11: get_soup never raises: every call that returns gives the failure value
\* None when the status is 400 or more or the transport failed, and a parsed
\* document when the status is below 400
C11_GetSoupClassifies ==
  \A i \in 1..Len(fetches) :
    LET f == fetches[i] IN
      f.outcome # "hang" =>
        /\ f.outcome \in {"None", "soup"}
        /\ IsFetchError(f.resp) => f.outcome = "None"
        /\ ~IsFetchError(f.resp) => f.outcome = "soup"

\* C12: every fetch is bounded by the per-request timeout: a fetch to a host that
\* never answers returns the failure value, and no fetch blocks forever
C12_EveryFetchTimesOut ==
  \A i \in 1..Len(fetches) :
    /\ fetches[i].outcome # "hang"
    /\ fetches[i].resp.transport = "no_response" => fetches[i].outcome = "None"

FetchNext == FetchRss \/ FetchCategory

SpecFetch == FetchInit /\ [][FetchNext]_vars

(***************************************************************************)
(* find_rss_links and the auto-discovery loop (_run_autodiscover of        *)
(* rss_news_scraper.py, the head of scrape_website_articles of             *)
(* category_news_scraper.py)                                               *)
(***************************************************************************)
\* A URL is [host, segs, slash, query]: https://host/seg/.../seg, with or without
\* a final "/", then "?query" when query is not empty.  A reference (an href) is
\* absolute ("abs"), rooted ("/a/b": "root"), or relative ("a/b": "rel").
Url(h, s, sl, q) == [host |-> h, segs |-> s, slash |-> sl, query |-> q]
Ref(k, h, s, sl) == [kind |-> k, host |-> h, segs |-> s, slash |-> sl]

Front(s) == SubSeq(s, 1, Len(s) - 1)

\* the directory that a relative reference is resolved in: up to the last "/" of the path
Dir(u) == IF u.slash \/ u.segs = <<>> THEN u.segs ELSE Front(u.segs)

\* urllib.parse.urljoin(base, ref)
UrlJoin(base, ref) ==
  IF ref.kind = "abs" THEN Url(ref.host, ref.segs, ref.slash, <<>>)
  ELSE IF ref.kind = "root" THEN Url(base.host, ref.segs, ref.slash, <<>>)
  ELSE Url(base.host, Dir(base) \o ref.segs, ref.slash, <<>>)

\* s.rstrip("/") on a string of characters
RECURSIVE RStripSlashes(_)
RStripSlashes(s) ==
  IF s # <<>> /\ s[Len(s)] = "/" THEN RStripSlashes(Front(s)) ELSE s

\* site_url.rstrip("/") + "/": the end of the string is the end of the query when
\* there is one, and the end of the path otherwise
WithFinalSlash(u) ==
  IF u.query = <<>> THEN [u EXCEPT !.slash = TRUE]
  ELSE [u EXCEPT !.query = Append(RStripSlashes(u.query), "/")]

\* the site_url values: as in the configured sources (https://techcrunch.com/,
\* https://openai.com/blog, https://venturebeat.com/ai/,
\* https://www.marketingbrew.com/?utm_source=chatgpt.com)
QueryUtm == <<"u", "t", "m", "=", "x">>
SeedUrls ==
  { Url("h", <<>>, FALSE, <<>>),
    Url("h", <<>>, TRUE, <<>>),
    Url("h", <<"blog">>, FALSE, <<>>),
    Url("h", <<"ai">>, TRUE, <<>>),
    Url("h", <<"news">>, FALSE, QueryUtm) }

\* the values of the type and rel attributes of a link element ("" or <<>>: no attribute)
TypeRss == <<"a", "p", "p", "l", "i", "c", "a", "t", "i", "o", "n", "/", "r", "s", "s", "+", "x", "m", "l">>
TypeRssUpper == <<"a", "p", "p", "l", "i", "c", "a", "t", "i", "o", "n", "/", "R", "S", "S", "+", "X", "M", "L">>
TypeAtom == <<"a", "p", "p", "l", "i", "c", "a", "t", "i", "o", "n", "/", "a", "t", "o", "m", "+", "x", "m", "l">>
TypeCss == <<"t", "e", "x", "t", "/", "c", "s", "s">>
RelAlternate == <<"a", "l", "t", "e", "r", "n", "a", "t", "e">>
RelAlternateUpper == <<"A", "l", "t", "e", "r", "n", "a", "t", "e">>
RelStylesheet == <<"s", "t", "y", "l", "e", "s", "h", "e", "e", "t">>
NoAttr == <<>>
NoHref == Ref("none", "", <<>>, FALSE)

\* the link elements a seed page can hold, by name
LinkPool ==
  [ feedRel   |-> [rel |-> RelAlternate, type |-> TypeRss,
                   href |-> Ref("rel", "", <<"feed.xml">>, FALSE)],
    feedRoot  |-> [rel |-> RelAlternate, type |-> TypeRss,
                   href |-> Ref("root", "", <<"feed.xml">>, FALSE)],
    feedAbs   |-> [rel |-> RelAlternateUpper, type |-> TypeRssUpper,
                   href |-> Ref("abs", "feeds.h", <<"main">>, FALSE)],
    style     |-> [rel |-> RelStylesheet, type |-> TypeCss,
                   href |-> Ref("root", "", <<"style.css">>, FALSE)],
    atom      |-> [rel |-> RelAlternate, type |-> TypeAtom,
                   href |-> Ref("root", "", <<"atom.xml">>, FALSE)],
    norel     |-> [rel |-> NoAttr, type |-> TypeRss,
                   href |-> Ref("root", "", <<"rss">>, FALSE)],
    nohref    |-> [rel |-> RelAlternate, type |-> TypeRss, href |-> NoHref] ]
LinkIds == DOMAIN LinkPool

\* how many link elements a seed page holds at most
MaxLinks == 3
Pages == UNION { [1..n -> LinkIds] : n \in 0..MaxLinks }

RssWord == <<"r", "s", "s">>
AlternateWord == <<"a", "l", "t", "e", "r", "n", "a", "t", "e">>

\* '"rss" in typ' with typ the lower-cased type attribute, per link element
TypeHasRss == { l \in LinkIds : Contains(Lower(LinkPool[l].type), RssWord) }

\* 'rel=lambda x: x and "alternate" in x.lower()', per link element
RelHasAlternate ==
  { l \in LinkIds : LinkPool[l].rel # NoAttr /\ Contains(Lower(LinkPool[l].rel), AlternateWord) }

\* "if href" per link element
HasHref == { l \in LinkIds : LinkPool[l].href.kind # "none" }

\* the link elements whose href find_rss_links appends to rss
Collects(impl) ==
  IF impl = "rss" THEN RelHasAlternate \cap TypeHasRss \cap HasHref
  ELSE TypeHasRss \cap HasHref

\* the for loop over the link elements: rss.append(urljoin(site_url, href))
RECURSIVE CollectFrom(_, _, _, _)
CollectFrom(impl, site, page, i) ==
  IF i > Len(page) THEN <<>>
  ELSE (IF page[i] \in Collects(impl)
        THEN <<UrlJoin(site, LinkPool[page[i]].href)>>
        ELSE <<>>) \o CollectFrom(impl, site, page, i + 1)
Collect(impl, site, page) == CollectFrom(impl, site, page, 1)

\* guesses, in the order of the list
guesses == <<"feed", "rss", "rss.xml", "feeds", "index.xml", "atom.xml">>

GuessBase_as_given(u) == u

\* the base that the guesses are joined to: site_url.rstrip("/") + "/"
GuessBase(u) == WithFinalSlash(u)

\* "for g in guesses: rss.append(urljoin(site_url.rstrip("/") + "/", g))"
GuessUrls(site) ==
  [ i \in 1..Len(guesses) |->
      UrlJoin(GuessBase(site), Ref("rel", "", <<guesses[i]>>, FALSE)) ]

\* the list rss before the duplicates are removed
RssList(impl, site, page) ==
  IF Collect(impl, site, page) = <<>> THEN GuessUrls(site)
  ELSE Collect(impl, site, page)

Dedupe_keep_all(s) == s

\* "out, seen = [], set(); for u in rss: if u not in seen: out.append(u); seen.add(u)"
RECURSIVE DedupeFrom(_, _, _)
DedupeFrom(s, i, seen) ==
  IF i > Len(s) THEN <<>>
  ELSE IF s[i] \in seen THEN DedupeFrom(s, i + 1, seen)
  ELSE <<s[i]>> \o DedupeFrom(s, i + 1, seen \cup {s[i]})
Dedupe(s) == DedupeFrom(s, 1, {})

\* find_rss_links(site_url), given what get_soup(site_url) returned
find_rss_links(impl, soup, site, page) ==
  IF soup = "None" THEN <<>> ELSE Dedupe(RssList(impl, site, page))

\* what get_soup(site_url) meets at the seed page
SeedResponses ==
  { [transport |-> "response", status |-> 200],
    [transport |-> "response", status |-> 404],
    [transport |-> "connection_error", status |-> 0] }

\* what parsing one candidate feed gives: the feed cannot be fetched or parsed,
\* it has no usable entry, or it gives articles
FeedOutcomes == {"parse_error", "no_entries", "articles"}

\* the list that parse_feed_once / scrape_rss_feed returns for the candidate f
ParseResult(f, o) == IF o = "articles" THEN <<[feed |-> f]>> ELSE <<>>

StopsAt_never(arts) == FALSE

\* "if arts: return arts" / "if rss_articles: return rss_articles"
StopsAt(arts) == arts # <<>>

DiscInit ==
  /\ SourceIdle
  /\ PipeIdle
  /\ CliIdle
  /\ PageIdle
  /\ fetches = <<>>
  /\ CandIdle
  /\ ChainIdle
  /\ dImpl \in {"rss", "category"}
  /\ seed \in SeedUrls
  /\ seedResp \in SeedResponses
  /\ links \in Pages
  /\ feeds = <<>>
  /\ dpos = 0
  /\ tried = <<>>
  /\ dResult = <<>>
  /\ dstate = "start"

\* feeds = find_rss_links(site_url)
Discover ==
  /\ dstate = "start"
  /\ LET soup == IF dImpl = "rss" THEN GetSoupRss(seedResp).outcome
                 ELSE GetSoupCat(seedResp).outcome
         f == find_rss_links(dImpl, soup, seed, links)
     IN  /\ feeds' = f
         /\ dpos' = 1
         /\ dstate' = IF f = <<>> THEN "exhausted" ELSE "trying"
  /\ UNCHANGED <<dImpl, seed, seedResp, links, tried, dResult, fetches,
                 srcVars, pipeVars, cliVars, candVars, chainVars, pageVars>>

\* one iteration of "for f in feeds" / "for rss_url in rss_links"
TryCandidate ==
  /\ dstate = "trying"
  /\ \E o \in FeedOutcomes :
       LET arts == ParseResult(feeds[dpos], o) IN
         /\ tried' = Append(tried, [feed |-> feeds[dpos], outcome |-> o])
         /\ IF StopsAt(arts)
            THEN /\ dResult' = arts
                 /\ dstate' = "returned"
                 /\ dpos' = dpos
            ELSE /\ dResult' = dResult
                 /\ dpos' = dpos + 1
                 /\ dstate' = IF dpos = Len(feeds) THEN "exhausted" ELSE "trying"
  /\ UNCHANGED <<dImpl, seed, seedResp, links, feeds, fetches,
                 srcVars, pipeVars, cliVars, candVars, chainVars, pageVars>>

\* the seed page was fetched: the host answered with a status below 400
SeedFetched == seedResp.transport = "response" /\ seedResp.status < 400

\* find_rss_links has returned
Discovered == dstate \in {"trying", "returned", "exhausted"}

\* the seed page holds no link element whose type contains "rss"
NoRssTyped == \A i \in 1..Len(links) : links[i] \notin TypeHasRss

\* the six conventional paths, each appended to the base path of the seed URL (its
\* path read as a directory; with a query string, the directory of its path)
ConventionalPaths == <<"feed", "rss", "rss.xml", "feeds", "index.xml", "atom.xml">>
BasePath(u) == IF u.query = <<>> THEN u.segs ELSE Dir(u)
SixGuesses ==
  [ i \in 1..6 |-> Url(seed.host, BasePath(seed) \o <<ConventionalPaths[i]>>, FALSE, <<>>) ]

GivesFeedUrl(l) ==
  /\ LinkPool[l].href.kind # "none"
  /\ l \in TypeHasRss
  /\ dImpl = "rss" => l \in RelHasAlternate

FirstIndex(s, x) == CHOOSE k \in 1..Len(s) : s[k] = x /\ \A n \in 1..(k - 1) : s[n] # x

\* C14: the sequence find_rss_links returns holds no two equal URLs, and its elements
\* are those collected, in the order in which each was first collected
C14_DedupedInOrder ==
  (Discovered /\ SeedFetched) =>
    LET rss == RssList(dImpl, seed, links) IN
      /\ \A i, j \in 1..Len(feeds) : feeds[i] = feeds[j] => i = j
      /\ Range(feeds) = Range(rss)
      /\ \A i, j \in 1..Len(feeds) :
           i < j => FirstIndex(rss, feeds[i]) < FirstIndex(rss, feeds[j])

\* three URLs were collected, two of them equal, and two were returned
C14_Witness ==
  /\ Discovered /\ SeedFetched
  /\ Len(RssList(dImpl, seed, links)) = 3
  /\ Len(feeds) = 2

\* C15: the candidates are parsed in the order of the list; a candidate that fails
\* or has no usable entry lets the loop go on to the next one; the articles of the
\* first candidate that gives any are returned and no later candidate is parsed;
\* when no candidate gives an article the result is empty
C15_FirstProducingCandidate ==
  /\ Len(tried) <= Len(feeds)
  /\ \A k \in 1..Len(tried) : tried[k].feed = feeds[k]
  /\ \A k \in 1..(Len(tried) - 1) : tried[k].outcome # "articles"
  /\ dstate = "trying" =>
       /\ Len(tried) < Len(feeds)
       /\ \A k \in 1..Len(tried) : tried[k].outcome # "articles"
  /\ dstate = "returned" =>
       /\ tried[Len(tried)].outcome = "articles"
       /\ dResult = <<[feed |-> feeds[Len(tried)]]>>
  /\ dstate = "exhausted" =>
       /\ Len(tried) = Len(feeds)
       /\ \A k \in 1..Len(tried) : tried[k].outcome # "articles"
       /\ dResult = <<>>

\* the third of six candidates gave the articles, after one that failed to parse
\* and one without entries
C15_Witness ==
  /\ dstate = "returned"
  /\ Len(feeds) = 6
  /\ Len(tried) = 3
  /\ tried[1].outcome = "parse_error"
  /\ tried[2].outcome = "no_entries"
  /\ dResult # <<>>

DiscNext == Discover \/ TryCandidate

SpecDisc == DiscInit /\ [][DiscNext]_vars

(***************************************************************************)
(* One source URL of CategoryNewsScraper.scrape_category: the direct feed, *)
(* then scrape_website_articles (auto-discovery, then the site's page)     *)
(***************************************************************************)
\* an Article scraped from the page of the site, not from a feed
SiteArticle == [feed |-> Url("h", <<"site-page">>, FALSE, <<>>)]

\* what the page scrape at the end of scrape_website_articles returns
SiteYields == {<<>>, <<SiteArticle>>}

NeedsSite_always(arts) == TRUE

\* "if not articles:" of scrape_category
NeedsSite(arts) == arts = <<>>

ChainInit ==
  /\ SourceIdle
  /\ PipeIdle
  /\ CliIdle
  /\ PageIdle
  /\ fetches = <<>>
  /\ CandIdle
  /\ chainOn = TRUE
  /\ direct = <<>>
  /\ listed = <<>>
  /\ srcArticles = <<>>
  /\ dImpl = "category"
  /\ seed \in SeedUrls
  /\ seedResp \in SeedResponses
  /\ links \in Pages
  /\ feeds = <<>>
  /\ dpos = 0
  /\ tried = <<>>
  /\ dResult = <<>>
  /\ dstate = "direct"

\* articles = scrape_rss_feed(url, ...): the source URL itself is parsed as a feed
DirectFeed ==
  /\ chainOn /\ dstate = "direct"
  /\ \E o \in FeedOutcomes :
       LET arts == ParseResult(seed, o) IN
         /\ direct' = <<arts>>
         /\ dstate' = IF NeedsSite(arts) THEN "start" ELSE "fed"
  /\ UNCHANGED <<chainOn, listed, srcArticles, dImpl, seed, seedResp, links, feeds, dpos,
                 tried, dResult, fetches, candVars, pageVars, srcVars, pipeVars, cliVars>>

\* the rest of scrape_website_articles once no candidate feed gave an article:
\* the site's page is fetched and its article links are scraped
ScrapePage ==
  /\ chainOn /\ dstate = "exhausted"
  /\ \E y \in SiteYields : listed' = <<y>>
  /\ dstate' = "scraped"
  /\ UNCHANGED <<chainOn, direct, srcArticles, dImpl, seed, seedResp, links, feeds, dpos,
                 tried, dResult, fetches, candVars, pageVars, srcVars, pipeVars, cliVars>>

\* the value of articles when scrape_category reaches all_articles.extend(articles)
ArticlesOfSource ==
  IF dstate = "fed" THEN direct[1]
  ELSE IF dstate = "returned" THEN dResult
  ELSE listed[1]

\* all_articles.extend(articles), followed by the delay between sources
ExtendArticles ==
  /\ chainOn /\ dstate \in {"fed", "returned", "scraped"}
  /\ srcArticles' = ArticlesOfSource
  /\ dstate' = "finished"
  /\ UNCHANGED <<chainOn, direct, listed, dImpl, seed, seedResp, links, feeds, dpos,
                 tried, dResult, fetches, candVars, pageVars, srcVars, pipeVars, cliVars>>

\* the stages that have run, and what each gave
DirectGave == IF direct = <<>> THEN <<>> ELSE direct[1]
AutoRan == dstate \in {"trying", "returned", "exhausted", "scraped"} \/ tried # <<>>
PageRan == listed # <<>>

\* C22: each source URL of the category pipeline goes through direct feed, feed
\* auto-discovery, page scrape, in this order; a later stage runs only when every
\* earlier one gave no article, and the articles of the first stage that gives
\* any are the result for the source
C22_AcquisitionChain ==
  chainOn =>
    /\ dstate # "direct" => direct # <<>>
    /\ (dstate = "start" \/ AutoRan \/ PageRan) => DirectGave = <<>>
    /\ PageRan =>
         /\ dResult = <<>>
         /\ Len(tried) = Len(feeds)
         /\ \A k \in 1..Len(tried) : tried[k].outcome # "articles"
    /\ dstate = "finished" =>
         srcArticles = IF DirectGave # <<>> THEN DirectGave
                       ELSE IF dResult # <<>> THEN dResult
                       ELSE listed[1]

\* the direct feed gave nothing, none of the six guessed feeds gave an article,
\* and the page scrape gave the article of the source
C22_Witness ==
  /\ chainOn /\ dstate = "finished"
  /\ DirectGave = <<>>
  /\ Len(tried) = 6
  /\ srcArticles = <<SiteArticle>>

ChainNext == DirectFeed \/ Discover \/ TryCandidate \/ ScrapePage \/ ExtendArticles

SpecChain == ChainInit /\ [][ChainNext]_vars

(***************************************************************************)
(* The candidate links of a listing page: scrape_listing_to_articles of    *)
(* rss_news_scraper.py, scrape_website_articles of category_news_scraper.py *)
(***************************************************************************)
\* the characters of each path segment and host name used below
NameChars ==
  << <<"technology", <<"t", "e", "c", "h", "n", "o", "l", "o", "g", "y">>>>,
     <<"chips-2025", <<"c", "h", "i", "p", "s", "-", "2", "0", "2", "5">>>>,
     <<"ai", <<"a", "i">>>>,
     <<"News-x", <<"N", "e", "w", "s", "-", "x">>>>,
     <<"blog", <<"b", "l", "o", "g">>>>,
     <<"post", <<"p", "o", "s", "t">>>>,
     <<"about", <<"a", "b", "o", "u", "t">>>>,
     <<"article-1", <<"a", "r", "t", "i", "c", "l", "e", "-", "1">>>>,
     <<"other.example", <<"o", "t", "h", "e", "r", ".", "e", "x", "a", "m", "p", "l", "e">>>> >>
CharsOf(name) == (CHOOSE k \in 1..Len(NameChars) : NameChars[k][1] = name)

\* the text of an href, as written in the page
RECURSIVE PathText(_)
PathText(s) ==
  IF s = <<>> THEN <<>>
  ELSE NameChars[CharsOf(s[1])][2] \o (IF Len(s) > 1 THEN <<"/">> ELSE <<>>) \o PathText(Tail(s))
HrefText(ref) ==
  (IF ref.kind = "abs" THEN <<"h", "t", "t", "p", "s", ":", "/", "/">> \o NameChars[CharsOf(ref.host)][2]
   ELSE <<>>)
  \o (IF ref.kind \in {"abs", "root"} THEN <<"/">> ELSE <<>>)
  \o PathText(ref.segs)
  \o (IF ref.slash THEN <<"/">> ELSE <<>>)

\* the listing_url / site_url values
ListingUrls ==
  { Url("h", <<"technology">>, TRUE, <<>>),
    Url("h", <<"technology">>, FALSE, <<>>) }

\* the href values of the anchors of a listing page, by name
AnchorPool ==
  [ chips     |-> Ref("rel", "", <<"chips-2025">>, FALSE),
    chipsRoot |-> Ref("root", "", <<"technology", "chips-2025">>, FALSE),
    aiNews    |-> Ref("root", "", <<"technology", "ai", "News-x">>, FALSE),
    aiDir     |-> Ref("rel", "", <<"ai">>, TRUE),
    article   |-> Ref("rel", "", <<"article-1">>, FALSE),
    blogPost  |-> Ref("abs", "other.example", <<"blog", "post">>, FALSE),
    about     |-> Ref("root", "", <<"about">>, FALSE),
    empty     |-> Ref("empty", "", <<>>, FALSE) ]
AnchorIds == DOMAIN AnchorPool

\* how many anchors a listing page holds at most
MaxAnchors == 4
AnchorLists == UNION { [1..n -> AnchorIds] : n \in 0..MaxAnchors }

\* urljoin(listing_url, href), with href = "" giving the listing URL itself
Resolve(base, a) ==
  IF AnchorPool[a].kind = "empty" THEN base ELSE UrlJoin(base, AnchorPool[a])

\* re.search(link_filter_regex, full) for a pattern like that of the Reuters source,
\* '^https?://www\.reuters\.com/technology/[^#?]+/?$'
MatchesRegex(u) ==
  /\ u.host = "h"
  /\ u.query = <<>>
  /\ Len(u.segs) >= 2
  /\ u.segs[1] = "technology"

\* "'article' in href.lower() or 'news' in href.lower() or 'blog' in href.lower()"
KeywordArticle == <<"a", "r", "t", "i", "c", "l", "e">>
KeywordNews == <<"n", "e", "w", "s">>
KeywordBlog == <<"b", "l", "o", "g">>
HasKeyword ==
  { a \in AnchorIds :
      LET h == Lower(HrefText(AnchorPool[a]))
      IN  Contains(h, KeywordArticle) \/ Contains(h, KeywordNews) \/ Contains(h, KeywordBlog) }

\* the candidate factor of each function: "max_articles * 3", "max_articles * 2"
ListingFactor == 3
SiteFactor == 2

\* the set hrefs of scrape_listing_to_articles, built by its first loop
Hrefs(base, as) ==
  { Resolve(base, as[i]) :
      i \in { k \in 1..Len(as) : /\ AnchorPool[as[k]].kind # "empty"
                                 /\ MatchesRegex(Resolve(base, as[k])) } }

\* the second loop of scrape_listing_to_articles, from anchor i on, with the
\* list built so far: append, then "if len(candidate_urls) >= max_articles * 3: break"
RECURSIVE ListingCandidatesFrom(_, _, _, _, _)
ListingCandidatesFrom(base, as, quota, i, cands) ==
  IF i > Len(as) THEN cands
  ELSE LET full == Resolve(base, as[i])
           next == IF full \in Hrefs(base, as) /\ full \notin Range(cands)
                   THEN Append(cands, full) ELSE cands
       IN  IF Len(next) >= quota * ListingFactor THEN next
           ELSE ListingCandidatesFrom(base, as, quota, i + 1, next)

\* the link loop of scrape_website_articles: the length test and the break are
\* inside the branch that appends
RECURSIVE SiteCandidatesFrom(_, _, _, _, _)
SiteCandidatesFrom(base, as, quota, i, cands) ==
  IF i > Len(as) THEN cands
  ELSE IF AnchorPool[as[i]].kind # "empty" /\ as[i] \in HasKeyword
          /\ Resolve(base, as[i]) \notin Range(cands)
       THEN LET next == Append(cands, Resolve(base, as[i]))
            IN  IF Len(next) >= quota * SiteFactor THEN next
                ELSE SiteCandidatesFrom(base, as, quota, i + 1, next)
       ELSE SiteCandidatesFrom(base, as, quota, i + 1, cands)

\* candidate_urls / article_links
Candidates(impl, base, as, quota) ==
  IF impl = "rss" THEN ListingCandidatesFrom(base, as, quota, 1, <<>>)
  ELSE SiteCandidatesFrom(base, as, quota, 1, <<>>)

\* the sequence the article loop goes over: "for u in candidate_urls",
\* "for url in article_links[:max_articles]"
Enriched(impl, cands, quota) ==
  IF impl = "rss" THEN cands ELSE SubSeq(cands, 1, Min(Len(cands), quota))

CandInit ==
  /\ SourceIdle
  /\ PipeIdle
  /\ CliIdle
  /\ PageIdle
  /\ fetches = <<>>
  /\ DiscIdle
  /\ ChainIdle
  /\ lImpl \in {"rss", "category"}
  /\ listing \in ListingUrls
  /\ anchors \in AnchorLists
  /\ lQuota \in 0..MaxQuota
  /\ candidates = <<>>
  /\ lstate = "start"

\* the two loops over the anchors of the fetched listing page
CollectCandidates ==
  /\ lstate = "start"
  /\ candidates' = Candidates(lImpl, listing, anchors, lQuota)
  /\ lstate' = "collected"
  /\ UNCHANGED <<lImpl, listing, anchors, lQuota, fetches, discVars, chainVars, pageVars, srcVars, pipeVars,
                 cliVars>>

\* the anchor at position k gives a candidate: its resolved URL matches the link
\* pattern (rss_news_scraper.py), its href holds one of the keywords
\* (category_news_scraper.py)
Qualifies(k) ==
  IF lImpl = "rss" THEN Resolve(listing, anchors[k]) \in Hrefs(listing, anchors)
  ELSE AnchorPool[anchors[k]].kind # "empty" /\ anchors[k] \in HasKeyword

\* the position of the first anchor that gives the candidate u
FirstSeen(u) ==
  CHOOSE k \in 1..Len(anchors) :
    /\ Qualifies(k) /\ Resolve(listing, anchors[k]) = u
    /\ \A n \in 1..(k - 1) : ~(Qualifies(n) /\ Resolve(listing, anchors[n]) = u)

\* C17: the candidate sequence that the listing scraper enriches holds only resolved
\* URLs matching the link pattern, has no duplicates, is in first-seen document
\* order, and is never longer than 3 times the article quota
C17_CandidatesCapped ==
  lstate = "collected" =>
    LET seq == Enriched(lImpl, candidates, lQuota) IN
      /\ \A i \in 1..Len(seq) :
           \E k \in 1..Len(anchors) : Qualifies(k) /\ Resolve(listing, anchors[k]) = seq[i]
      /\ \A i, j \in 1..Len(seq) : seq[i] = seq[j] => i = j
      /\ \A i, j \in 1..Len(seq) : i < j => FirstSeen(seq[i]) < FirstSeen(seq[j])
      /\ Len(seq) <= 3 * lQuota

CandNext == CollectCandidates

SpecCand == CandInit /\ [][CandNext]_vars

(*********************************************************************)
(* The metadata of an emitted article: extract_meta, iso_from_any    *)
(* and the published date of a feed entry                            *)
(*********************************************************************)

\* A date string is a sequence of parts:
\*   "D" 2024-01-02          "T" the letter T        "C" 03:04:05
\*   "Z" the letter Z        "O" +00:00              "N" +0000
\*   "G" GMT                 "F" .123                "R" Tue, 02 Jan 2024
\*   "S" a space             "W" other words
DatePool ==
  [ isoOffset   |-> <<"D", "T", "C", "O">>,
    isoZ        |-> <<"D", "T", "C", "Z">>,
    isoNaive    |-> <<"D", "T", "C">>,
    isoFraction |-> <<"D", "T", "C", "F", "Z">>,
    isoNote     |-> <<"D", "T", "C", "S", "W">>,
    dateOnly    |-> <<"D">>,
    rfcNumeric  |-> <<"R", "S", "C", "S", "N">>,
    rfcGmt      |-> <<"R", "S", "C", "S", "G">>,
    words       |-> <<"W">>,
    empty       |-> <<>> ]

DateIds == DOMAIN DatePool

\* what %z of strptime accepts
UtcOffsets == {<<"Z">>, <<"O">>, <<"N">>}

\* the formats of iso_from_any, in order, each as the strings it parses
StrptimeFormats ==
  << {<<"D", "T", "C">> \o z : z \in UtcOffsets},
     {<<"D", "T", "C", "G">>},
     {<<"D", "T", "C">>},
     {<<"R", "S", "C", "S">> \o z : z \in UtcOffsets},
     {<<"R", "S", "C", "S", "G">>},
     {<<"D">>} >>

\* the formats with %z give an aware datetime
AwareFormats == {1, 4}

\* datetime.isoformat()
IsoFormat(aware) == IF aware THEN <<"D", "T", "C", "O">> ELSE <<"D", "T", "C">>

\* re.match(r"(\d{4}-\d{2}-\d{2}T\d{2}:\d{2}:\d{2})(Z|[+\-]\d{2}:\d{2})?", dt_str)
MatchesIsoPrefix(s) == Len(s) >= 3 /\ SubSeq(s, 1, 3) = <<"D", "T", "C">>

\* dt_str.replace("Z", "+00:00")
ReplaceZ(s) == [i \in 1..Len(s) |-> IF s[i] = "Z" THEN "O" ELSE s[i]]

\* iso_from_any(dt_str); <<>> stands for None, <<s>> for the string s
iso_from_any(s) ==
  IF s = <<>> THEN <<>>
  ELSE IF \E f \in 1..Len(StrptimeFormats) : s \in StrptimeFormats[f]
       THEN LET f == CHOOSE g \in 1..Len(StrptimeFormats) :
                       /\ s \in StrptimeFormats[g]
                       /\ \A h \in 1..(g - 1) : s \notin StrptimeFormats[h]
            IN  <<IsoFormat(f \in AwareFormats)>>
  ELSE IF MatchesIsoPrefix(s) THEN <<ReplaceZ(s)>>
  ELSE <<>>

\* the date strings feedparser turns into published_parsed
FeedparserParses(s) ==
  \/ \E f \in 1..Len(StrptimeFormats) : s \in StrptimeFormats[f]
  \/ s \in {<<"D", "T", "C", "F">> \o z : z \in UtcOffsets}

\* parse_feed_once: datetime(*entry.published_parsed[:6]).isoformat(), None without it
PublishedOfParsedEntry(d) ==
  IF d # "none" /\ FeedparserParses(DatePool[d]) THEN <<IsoFormat(FALSE)>> ELSE <<>>

\* scrape_rss_feed: published_date = entry.published, None without the attribute
PublishedOfEntry(d) == IF d = "none" THEN <<>> ELSE <<DatePool[d]>>

\* Python truth of an attribute that holds a title id or a date id
Truthy(x) == x \notin {"none", "empty"}

\* a or b
Or(a, b) == IF Truthy(a) THEN a ELSE b

\* the JSON-LD objects a page can hold, by name
LdPool ==
  [ article  |-> [type |-> "NewsArticle", headline |-> "ainews",
                  datePublished |-> "isoZ", dateCreated |-> "none"],
    blogPost |-> [type |-> "BlogPosting", headline |-> "none",
                  datePublished |-> "none", dateCreated |-> "rfcNumeric"],
    webPage  |-> [type |-> "WebPage", headline |-> "dash",
                  datePublished |-> "isoNote", dateCreated |-> "none"],
    person   |-> [type |-> "Person", headline |-> "tagged",
                  datePublished |-> "none", dateCreated |-> "none"] ]

LdIds == DOMAIN LdPool
MaxLd == 2
LdLists == UNION {[1..n -> LdIds] : n \in 0..MaxLd}

ArticleTypes == {"NewsArticle", "Article", "BlogPosting"}

\* the link rel=canonical elements a page can hold
EmptyHref == Ref("empty", "", <<>>, FALSE)
CanonHrefs ==
  { NoHref, EmptyHref,
    Ref("root", "", <<"story">>, FALSE),
    Ref("abs", "amp", <<"story">>, FALSE) }

MetaUrl == Url("h", <<"technology", "story">>, FALSE, <<"utm">>)

MetaPages ==
  [ canon   : CanonHrefs,
    og      : {"none", "empty", "long"},
    ld      : LdLists,
    tag     : {"none", "amp"},
    pubTime : {"none", "empty", "isoOffset", "rfcGmt", "isoFraction", "words"},
    pubdate : {"none", "dateOnly"} ]

\* meta["canonical"]
CanonicalOf(page, url) ==
  IF page.canon.kind \notin {"none", "empty"} THEN UrlJoin(url, page.canon) ELSE url

\* soup.find(article:published_time) or soup.find(name=pubdate), then its content
ArtPub(page) ==
  LET el == IF page.pubTime # "none" THEN page.pubTime ELSE page.pubdate
  IN  IF Truthy(el) THEN el ELSE "none"

\* the loop over the JSON-LD objects: the title and published after object i and the rest
RECURSIVE LdFold(_, _, _, _)
LdFold(objs, i, title, published) ==
  IF i > Len(objs) THEN [title |-> title, published |-> published]
  ELSE LET obj == LdPool[objs[i]]
           t1 == IF obj.type \in ArticleTypes THEN Or(title, obj.headline) ELSE title
           p1 == IF obj.type \in ArticleTypes
                 THEN Or(Or(published, obj.datePublished), obj.dateCreated)
                 ELSE published
           t2 == IF obj.type = "WebPage" /\ Truthy(obj.headline)
                 THEN Or(t1, obj.headline) ELSE t1
       IN  LdFold(objs, i + 1, t2, p1)

\* the JSON-LD step of category_news_scraper.extract_meta: there is none
NoLdFold(objs, i, title, published) == [title |-> title, published |-> published]

\* the text of a title id after clean_text
CleanedRss(t) == IF t = "none" THEN <<>> ELSE CleanTitleRss[t]
CleanedCat(t) == IF t = "none" THEN <<>> ELSE CleanTitleCat[t]

\* rss_news_scraper.extract_meta(soup, url)
extract_meta_rss(page, url) ==
  LET og == IF Truthy(page.og) THEN page.og ELSE "none"
      ld == LdFold(page.ld, 1, og, ArtPub(page))
      title == IF Truthy(ld.title) THEN ld.title ELSE page.tag
  IN  [ title     |-> CleanedRss(title),
        titleOf   |-> title,
        canonical |-> CanonicalOf(page, url),
        published |-> IF Truthy(ld.published) THEN iso_from_any(DatePool[ld.published])
                      ELSE <<>> ]

\* category_news_scraper.extract_meta(soup, url)
extract_meta_cat(page, url) ==
  LET og == IF Truthy(page.og) THEN page.og ELSE "none"
      ld == NoLdFold(page.ld, 1, og, ArtPub(page))
      title == IF Truthy(ld.title) THEN ld.title ELSE page.tag
  IN  [ title     |-> CleanedCat(title),
        titleOf   |-> title,
        canonical |-> CanonicalOf(page, url),
        published |-> IF ld.published = "none" THEN <<>> ELSE <<DatePool[ld.published]>> ]

ListingPaths == {"scrape_listing_to_articles", "scrape_website_articles"}
FeedPaths == {"parse_feed_once", "scrape_rss_feed"}

MetaInit ==
  /\ SourceIdle
  /\ PipeIdle
  /\ CliIdle
  /\ fetches = <<>>
  /\ DiscIdle
  /\ CandIdle
  /\ ChainIdle
  /\ BodyIdle
  /\ AllIdle
  /\ mPath \in ListingPaths \cup FeedPaths
  /\ \/ /\ mPath \in ListingPaths
        /\ mUrl = MetaUrl
        /\ mPage \in MetaPages
        /\ mEntry = "none"
     \/ /\ mPath \in FeedPaths
        /\ mUrl = "none"
        /\ mPage = "none"
        /\ mEntry \in (DateIds \ {"empty"}) \cup {"none"}
  /\ meta = <<>>
  /\ mstate = "start"

\* an article of a listing page: meta = extract_meta(art_soup, url), and the
\* Article built from meta
ExtractMeta ==
  /\ mstate = "start"
  /\ mPath \in ListingPaths
  /\ meta' = << IF mPath = "scrape_listing_to_articles"
                THEN extract_meta_rss(mPage, mUrl)
                ELSE extract_meta_cat(mPage, mUrl) >>
  /\ mstate' = "extracted"
  /\ UNCHANGED <<mPath, mUrl, mPage, mEntry, bodyVars, allVars, fetches, discVars, candVars, chainVars,
                 srcVars, pipeVars, cliVars>>

\* an article of a feed: published_date of the entry
EntryDate ==
  /\ mstate = "start"
  /\ mPath \in FeedPaths
  /\ meta' = << [ published |-> IF mPath = "parse_feed_once"
                                THEN PublishedOfParsedEntry(mEntry)
                                ELSE PublishedOfEntry(mEntry) ] >>
  /\ mstate' = "extracted"
  /\ UNCHANGED <<mPath, mUrl, mPage, mEntry, bodyVars, allVars, fetches, discVars, candVars, chainVars,
                 srcVars, pipeVars, cliVars>>

\* a date and time in ISO-8601
IsIso8601(s) ==
  \/ s = <<"D">>
  \/ s \in {<<"D", "T", "C">>, <<"D", "T", "C", "F">>}
  \/ s \in {<<"D", "T", "C">> \o z : z \in {<<"Z">>, <<"O">>}}
  \/ s \in {<<"D", "T", "C", "F">> \o z : z \in {<<"Z">>, <<"O">>}}

\* the raw date the published field was taken from, "none" without one
RawDateOf ==
  IF mPath \in FeedPaths THEN mEntry
  ELSE IF mPath = "scrape_listing_to_articles"
       THEN LdFold(mPage.ld, 1, "none", ArtPub(mPage)).published
       ELSE ArtPub(mPage)

\* C23: the published timestamp of an emitted article is absent or an ISO-8601
\* string, and a raw date that matches no recognized format and has no ISO-looking
\* prefix gives an absent timestamp
C23_PublishedAbsentOrIso ==
  mstate = "extracted" =>
    /\ meta[1].published # <<>> => IsIso8601(meta[1].published[1])
    /\ ( /\ Truthy(RawDateOf)
         /\ ~ \E f \in 1..Len(StrptimeFormats) : DatePool[RawDateOf] \in StrptimeFormats[f]
         /\ ~ MatchesIsoPrefix(DatePool[RawDateOf]) )
       => meta[1].published = <<>>

\* the first of the title sources that yields something: og:title, the headline of
\* the first Article, NewsArticle or BlogPosting object that has one, the title element
RECURSIVE FirstHeadline(_, _)
FirstHeadline(objs, i) ==
  IF i > Len(objs) THEN "none"
  ELSE IF LdPool[objs[i]].type \in ArticleTypes /\ Truthy(LdPool[objs[i]].headline)
       THEN LdPool[objs[i]].headline
       ELSE FirstHeadline(objs, i + 1)

TitleByPrecedence(page) == Or(Or(page.og, FirstHeadline(page.ld, 1)), page.tag)

\* C24: the title is the og:title value, else the headline of an Article, NewsArticle
\* or BlogPosting object, else the text of the title element; the canonical URL is
\* the resolved link rel=canonical, else the page URL
C24_MetaPrecedence ==
  (mstate = "extracted" /\ mPath \in ListingPaths) =>
    /\ meta[1].titleOf = TitleByPrecedence(mPage)
    /\ meta[1].canonical =
         IF mPage.canon.kind \notin {"none", "empty"} THEN UrlJoin(mUrl, mPage.canon)
         ELSE mUrl

MetaNext == ExtractMeta \/ EntryDate

SpecMeta == MetaInit /\ [][MetaNext]_vars

(*********************************************************************)
(* The body of an article page: extract_main_content_generic, the    *)
(* overrides and fetch_article_content (rss_news_scraper.py),        *)
(* extract_main_content (category_news_scraper.py)                   *)
(*********************************************************************)

\* the p elements a page can hold, by name: the text, the excluded element the
\* paragraph lies in ("none": in none), and whether it carries data-testid="paragraph"
ParaPool ==
  [ p3   |-> [text |-> <<"a", " ", "b", " ", "c">>, inside |-> "none", testid |-> FALSE],
    q3   |-> [text |-> <<"x", " ", "y", " ", "z">>, inside |-> "none", testid |-> FALSE],
    t3   |-> [text |-> <<"t", " ", "u", " ", "v">>, inside |-> "none", testid |-> TRUE],
    k3   |-> [text |-> <<"k", "k", " ", "l", "l", " ", "m", "m">>,
              inside |-> "none", testid |-> FALSE],
    amp3 |-> [text |-> <<"&", "a", "m", "p", ";", " ", "b", " ", "c">>,
              inside |-> "none", testid |-> FALSE],
    p5   |-> [text |-> <<"d", " ", "e", " ", "f", " ", "g", " ", "h">>,
              inside |-> "none", testid |-> FALSE],
    q5   |-> [text |-> <<"q", " ", "r", " ", "s", " ", "t", " ", "u">>,
              inside |-> "none", testid |-> FALSE],
    p2   |-> [text |-> <<"i", " ", "j">>, inside |-> "none", testid |-> FALSE],
    nav5 |-> [text |-> <<"n", " ", "o", " ", "p", " ", "q", " ", "r">>,
              inside |-> "nav", testid |-> FALSE] ]

\* the containers a page can hold, by name: the selectors the element matches and
\* its p elements in document order
ContainerPool ==
  [ artShort |-> [sels |-> {"article"}, paras |-> <<"p3">>],
    artTie   |-> [sels |-> {"article", ".article-body__content"}, paras |-> <<"q3", "p2">>],
    artLong  |-> [sels |-> {"article"}, paras |-> <<"t3", "p5">>],
    ibmLong  |-> [sels |-> {"article", "article .ibm--content"}, paras |-> <<"amp3">>],
    mainNav  |-> [sels |-> {"main"}, paras |-> <<"nav5", "k3">>],
    content  |-> [sels |-> {"main", ".content", "[data-testid=Body]"},
                  paras |-> <<"q5", "p3">>],
    bxPlain  |-> [sels |-> {".bx--content"}, paras |-> <<"k3", "p2">>],
    plain    |-> [sels |-> {}, paras |-> <<"p5", "nav5">>] ]

ContainerIds == DOMAIN ContainerPool
MaxContainers == 2
BodyPages == UNION {[1..n -> ContainerIds] : n \in 0..MaxContainers}

\* the selector list of extract_main_content_generic
GenericSelectorsRss ==
  << "article", "main", "[role=main]", ".article-content", ".post-content",
     ".entry-content", ".content__article-body", ".c-article", ".c-post",
     ".story-content", ".rich-text", ".story-body", ".article__body" >>

\* the selector list of extract_main_content
GenericSelectorsCat ==
  << "article", "main", "[role=main]", ".article-content", ".post-content",
     ".entry-content", ".article-body", ".content__article-body", ".c-article",
     ".c-post", ".story-content", ".rich-text", ".story-body", ".article__body",
     ".post-body", ".entry-body", ".content-body", ".article-text", ".post-text",
     "[data-testid=article-content]", "[data-testid=story-content]", ".content",
     ".main-content", ".article-main", ".post-main" >>

\* the selectors of the overrides, each as the container part and whether the
\* selected element is [data-testid="paragraph"] rather than p
ReutersSelectors ==
  << [within |-> "article", testid |-> TRUE],
     [within |-> "article", testid |-> FALSE],
     [within |-> "[data-testid=Body]", testid |-> FALSE],
     [within |-> ".article-body__content", testid |-> FALSE] >>

IbmSelectors ==
  << [within |-> "article .ibm--content", testid |-> FALSE],
     [within |-> "article", testid |-> FALSE],
     [within |-> ".bx--content", testid |-> FALSE],
     [within |-> ".ibm-text__container", testid |-> FALSE],
     [within |-> ".article__body", testid |-> FALSE] >>

\* len(t.split()) >= 3 / len(text.split()) >= 5
MinWordsRss == 3
MinWordsCat == 5

\* the elements find_parent(["nav", "aside", "footer", "header"]) looks for
ExcludedParents == {"nav", "aside", "footer", "header"}

\* len(t.split())
RECURSIVE WordCountFrom(_, _)
WordCountFrom(s, i) ==
  IF i > Len(s) THEN 0
  ELSE (IF s[i] \notin Whitespace /\ (i = 1 \/ s[i - 1] \in Whitespace) THEN 1 ELSE 0)
       + WordCountFrom(s, i + 1)

WordCount(s) == WordCountFrom(s, 1)

\* "\n\n".join(texts)
RECURSIVE JoinFrom(_, _)
JoinFrom(texts, i) ==
  IF i > Len(texts) THEN <<>>
  ELSE IF i = Len(texts) THEN texts[i]
  ELSE texts[i] \o <<"\n", "\n">> \o JoinFrom(texts, i + 1)

Join(texts) == JoinFrom(texts, 1)

\* the p elements under a candidate; the candidate 0 is soup.body
RECURSIVE ParasFrom(_, _)
ParasFrom(page, i) ==
  IF i > Len(page) THEN <<>> ELSE ContainerPool[page[i]].paras \o ParasFrom(page, i + 1)

ParasOfPage(page) == ParasFrom(page, 1)

ParasOf(page, c) == IF c = 0 THEN ParasOfPage(page) ELSE ContainerPool[page[c]].paras

\* the texts a candidate gives: the paragraphs outside the excluded elements that
\* have at least minWords words
RECURSIVE QualifyingFrom(_, _, _)
QualifyingFrom(paras, i, minWords) ==
  IF i > Len(paras) THEN <<>>
  ELSE LET p == ParaPool[paras[i]]
       IN  (IF p.inside \notin ExcludedParents /\ WordCount(p.text) >= minWords
            THEN <<p.text>> ELSE <<>>)
           \o QualifyingFrom(paras, i + 1, minWords)

\* visible_p_tags(root) / extract_text_content(root), after the decompose of
\* extract_main_content has removed the nav, aside, footer and header elements
TextsOf(page, c, minWords) == QualifyingFrom(ParasOf(page, c), 1, minWords)

\* the containers of the page that match a selector, in document order
RECURSIVE MatchesFrom(_, _, _)
MatchesFrom(page, sel, i) ==
  IF i > Len(page) THEN <<>>
  ELSE (IF sel \in ContainerPool[page[i]].sels THEN <<i>> ELSE <<>>)
       \o MatchesFrom(page, sel, i + 1)

Matches(page, sel) == MatchesFrom(page, sel, 1)

\* soup.select_one(selector): the first match only
SelectOne(page, sel) ==
  IF Matches(page, sel) = <<>> THEN <<>> ELSE <<Matches(page, sel)[1]>>

\* soup.select(selector): every match
SelectAll(page, sel) == Matches(page, sel)

\* "node not in candidates": two elements are equal when their content is
RECURSIVE AppendNew(_, _, _, _)
AppendNew(page, cands, nodes, i) ==
  IF i > Len(nodes) THEN cands
  ELSE IF \E j \in 1..Len(cands) : page[cands[j]] = page[nodes[i]]
       THEN AppendNew(page, cands, nodes, i + 1)
       ELSE AppendNew(page, Append(cands, nodes[i]), nodes, i + 1)

\* the loop over the selectors of extract_main_content_generic
RECURSIVE CandidatesRssFrom(_, _)
CandidatesRssFrom(page, i) ==
  IF i > Len(GenericSelectorsRss) THEN <<>>
  ELSE SelectOne(page, GenericSelectorsRss[i]) \o CandidatesRssFrom(page, i + 1)

\* the loop over the selectors of extract_main_content
RECURSIVE CandidatesCatFrom(_, _, _)
CandidatesCatFrom(page, cands, i) ==
  IF i > Len(GenericSelectorsCat) THEN cands
  ELSE CandidatesCatFrom(page,
                         AppendNew(page, cands, SelectAll(page, GenericSelectorsCat[i]), 1),
                         i + 1)

\* if not candidates: candidates = [soup.body]
OrBody(cands) == IF cands = <<>> THEN <<0>> ELSE cands

BodyCandidatesRss(page) == OrBody(CandidatesRssFrom(page, 1))
BodyCandidatesCat(page) == OrBody(CandidatesCatFrom(page, <<>>, 1))

\* if len(joined) > best_len
Replaces_on_ties(len, bestLen) == len >= bestLen
Replaces(len, bestLen) == len > bestLen

\* the loop over the candidates: best_text after candidate i and the rest
RECURSIVE BestFrom(_, _, _, _, _)
BestFrom(page, cands, i, minWords, best) ==
  IF i > Len(cands) THEN best
  ELSE LET joined == Join(TextsOf(page, cands[i], minWords))
       IN  BestFrom(page, cands, i + 1, minWords,
                    IF Replaces(Len(joined), Len(best)) THEN joined ELSE best)

\* extract_main_content_generic(soup)
extract_main_content_generic(page) ==
  Strip(BestFrom(page, BodyCandidatesRss(page), 1, MinWordsRss, <<>>))

\* extract_main_content(soup), before its clean_text
BestTextCat(page) ==
  Strip(BestFrom(page, BodyCandidatesCat(page), 1, MinWordsCat, <<>>))

\* the texts kept of the elements an override selector selects in one container
RECURSIVE KeptFrom(_, _, _)
KeptFrom(paras, testid, j) ==
  IF j > Len(paras) THEN <<>>
  ELSE LET p == ParaPool[paras[j]]
       IN  (IF (testid => p.testid) /\ WordCount(p.text) >= MinWordsRss
            THEN <<p.text>> ELSE <<>>)
           \o KeptFrom(paras, testid, j + 1)

\* soup.select(sel) of an override, and the texts kept of it
RECURSIVE OverrideTexts(_, _, _)
OverrideTexts(page, sel, i) ==
  IF i > Len(page) THEN <<>>
  ELSE (IF sel.within \in ContainerPool[page[i]].sels
        THEN KeptFrom(ContainerPool[page[i]].paras, sel.testid, 1) ELSE <<>>)
       \o OverrideTexts(page, sel, i + 1)

\* if parts: break
StopsOverride_never(parts) == FALSE
StopsOverride(parts) == parts # <<>>

\* the loop over the selectors of an override: parts after selector i and the rest
RECURSIVE PartsFrom(_, _, _, _)
PartsFrom(page, sels, i, parts) ==
  IF i > Len(sels) THEN parts
  ELSE LET now == parts \o OverrideTexts(page, sels[i], 1)
       IN  IF StopsOverride(now) THEN now ELSE PartsFrom(page, sels, i + 1, now)

\* extract_main_content_reuters / extract_main_content_ibm
Override(page, sels) ==
  LET parts == PartsFrom(page, sels, 1, <<>>)
  IN  IF parts = <<>> THEN extract_main_content_generic(page) ELSE Join(parts)

\* the source keys a page is extracted for, each with its characters
SourceKeyText ==
  [ reuters_ai |-> <<"r", "e", "u", "t", "e", "r", "s", "_", "a", "i">>,
    ibm_think  |-> <<"i", "b", "m", "_", "t", "h", "i", "n", "k">>,
    techcrunch |-> <<"t", "e", "c", "h", "c", "r", "u", "n", "c", "h">>,
    ai_reuters |-> <<"a", "i", "_", "r", "e", "u", "t", "e", "r", "s">> ]

SourceKeys == DOMAIN SourceKeyText

PrefixReuters == <<"r", "e", "u", "t", "e", "r", "s">>
PrefixIbm == <<"i", "b", "m">>

\* source_key.startswith("reuters") / source_key.startswith("ibm")
IsReuters(key) == key \in SourceKeys /\ StartsWith(SourceKeyText[key], PrefixReuters)
IsIbm(key) == key \in SourceKeys /\ StartsWith(SourceKeyText[key], PrefixIbm)

\* fetch_article_content(url, source_key) once the page is fetched
fetch_article_content(page, key) ==
  IF IsReuters(key) THEN clean_text_rss(Override(page, ReutersSelectors))
  ELSE IF IsIbm(key) THEN clean_text_rss(Override(page, IbmSelectors))
  ELSE clean_text_rss(extract_main_content_generic(page))

\* extract_main_content(soup)
extract_main_content(page) == clean_text_cat(BestTextCat(page))

BodyInit ==
  /\ SourceIdle
  /\ PipeIdle
  /\ CliIdle
  /\ fetches = <<>>
  /\ DiscIdle
  /\ CandIdle
  /\ ChainIdle
  /\ MetaIdle
  /\ AllIdle
  /\ bImpl \in {"rss", "category"}
  /\ bKey \in IF bImpl = "rss" THEN SourceKeys ELSE {"none"}
  /\ bPage \in BodyPages
  /\ body = <<>>
  /\ bstate = "start"

\* content = fetch_article_content(link, source_key)
FetchArticleContent ==
  /\ bstate = "start"
  /\ bImpl = "rss"
  /\ body' = <<fetch_article_content(bPage, bKey)>>
  /\ bstate' = "extracted"
  /\ UNCHANGED <<bImpl, bKey, bPage, metaVars, allVars, fetches, discVars, candVars, chainVars,
                 srcVars, pipeVars, cliVars>>

\* content = extract_main_content(art_soup)
ExtractMainContent ==
  /\ bstate = "start"
  /\ bImpl = "category"
  /\ body' = <<extract_main_content(bPage)>>
  /\ bstate' = "extracted"
  /\ UNCHANGED <<bImpl, bKey, bPage, metaVars, allVars, fetches, discVars, candVars, chainVars,
                 srcVars, pipeVars, cliVars>>

\* the generic strategy runs on the page: no override for the key
Generic == bImpl = "category" \/ (~IsReuters(bKey) /\ ~IsIbm(bKey))

\* the candidates, the word minimum and the clean_text of the file that runs
CandidatesHere == IF bImpl = "rss" THEN BodyCandidatesRss(bPage) ELSE BodyCandidatesCat(bPage)
MinWordsHere == IF bImpl = "rss" THEN MinWordsRss ELSE MinWordsCat
CleanHere(s) == IF bImpl = "rss" THEN clean_text_rss(s) ELSE clean_text_cat(s)
JoinedOf(c) == Join(TextsOf(bPage, c, MinWordsHere))

\* C25: the body is the joined qualifying-paragraph text of the candidate of maximum
\* character length, and of the first such candidate when several tie
C25_LongestFirstOnTies ==
  (bstate = "extracted" /\ Generic) =>
    LET cs == CandidatesHere
        k == CHOOSE k \in 1..Len(cs) :
               /\ \A j \in 1..Len(cs) : Len(JoinedOf(cs[j])) <= Len(JoinedOf(cs[k]))
               /\ \A j \in 1..(k - 1) : Len(JoinedOf(cs[j])) < Len(JoinedOf(cs[k]))
    IN  body[1] = CleanHere(JoinedOf(cs[k]))

\* two candidates tie on the maximum length with different texts
C25_Witness ==
  /\ bstate = "extracted"
  /\ Generic
  /\ \E i, j \in 1..Len(CandidatesHere) :
       /\ i < j
       /\ JoinedOf(CandidatesHere[i]) # JoinedOf(CandidatesHere[j])
       /\ Len(JoinedOf(CandidatesHere[i])) = Len(JoinedOf(CandidatesHere[j]))
       /\ Len(JoinedOf(CandidatesHere[i])) > 0
       /\ \A m \in 1..Len(CandidatesHere) :
            Len(JoinedOf(CandidatesHere[m])) <= Len(JoinedOf(CandidatesHere[i]))
       /\ body[1] = CleanHere(JoinedOf(CandidatesHere[i]))

\* every container of the page that a selector of the list matches
AllMatched ==
  LET sels == IF bImpl = "rss" THEN GenericSelectorsRss ELSE GenericSelectorsCat
  IN  {c \in 1..Len(bPage) : \E i \in 1..Len(sels) : sels[i] \in ContainerPool[bPage[c]].sels}

\* C26: the candidates are all the containers matched by every selector of the list,
\* so no matched container holds a longer qualifying text than the body kept
C26_EveryMatchIsCandidate ==
  (bstate = "extracted" /\ Generic) =>
    /\ \A c \in AllMatched : \E i \in 1..Len(CandidatesHere) : bPage[CandidatesHere[i]] = bPage[c]
    /\ \A c \in AllMatched : Len(CleanHere(JoinedOf(c))) <= Len(body[1])

\* the first selector of the override whose elements hold a paragraph of 3 words or more
FirstYielding(sels) ==
  IF \E i \in 1..Len(sels) : OverrideTexts(bPage, sels[i], 1) # <<>>
  THEN CHOOSE i \in 1..Len(sels) :
         /\ OverrideTexts(bPage, sels[i], 1) # <<>>
         /\ \A j \in 1..(i - 1) : OverrideTexts(bPage, sels[j], 1) = <<>>
  ELSE 0

OverrideOf(key) ==
  IF IsReuters(key) THEN ReutersSelectors
  ELSE IF IsIbm(key) THEN IbmSelectors
  ELSE <<>>

\* C27: for a reuters* or ibm* key the body is the paragraphs of the first override
\* selector that yields a paragraph of 3 words or more, and the generic result when
\* none does; for any other key the body is the generic result
C27_OverrideDispatch ==
  (bstate = "extracted" /\ bImpl = "rss") =>
    LET sels == OverrideOf(bKey)
        f == FirstYielding(sels)
    IN  IF f = 0
        THEN body[1] = clean_text_rss(extract_main_content_generic(bPage))
        ELSE body[1] = clean_text_rss(Join(OverrideTexts(bPage, sels[f], 1)))

\* an override whose first selector yields nothing and whose second and third both do
C27_Witness ==
  /\ bstate = "extracted"
  /\ bKey = "reuters_ai"
  /\ FirstYielding(ReutersSelectors) = 2
  /\ OverrideTexts(bPage, ReutersSelectors[3], 1) # <<>>
  /\ OverrideTexts(bPage, ReutersSelectors[3], 1) # OverrideTexts(bPage, ReutersSelectors[2], 1)
  /\ body[1] = clean_text_rss(Join(OverrideTexts(bPage, ReutersSelectors[2], 1)))
  /\ body[1] # clean_text_rss(extract_main_content_generic(bPage))

BodyNext == FetchArticleContent \/ ExtractMainContent

SpecBody == BodyInit /\ [][BodyNext]_vars

(*********************************************************************)
(* RSSNewsScraper.scrape_all and scrape_ai_sources_only              *)
(*********************************************************************)

\* the keys of self.sources as __init__ builds it, in insertion order
SourceOrder ==
  << "aibusiness", "ainews", "reuters_tech", "reuters_ai", "ibm_think",
     "trendhunter_ai", "techcrunch", "venturebeat_ai", "mit_news_ai", "openai_blog" >>

\* ai_keys of scrape_ai_sources_only
ai_keys ==
  << "aibusiness", "ainews", "ibm_think", "trendhunter_ai", "venturebeat_ai",
     "mit_news_ai", "openai_blog" >>

AllKeys == {SourceOrder[i] : i \in 1..Len(SourceOrder)}

\* bound on the number of configured sources
MaxSources == 2

\* what self.scrape_source(source_key, ...) does for a configured source
SourceOutcomes == {"articles", "empty", "raise"}

\* the list scrape_source returns
ReturnedBy(key, outcome) == IF outcome = "articles" THEN <<[source |-> key]>> ELSE <<>>

\* the configured keys among the first i keys of an order, in that order
RECURSIVE ConfiguredFrom(_, _, _)
ConfiguredFrom(order, configured, i) ==
  IF i > Len(order) THEN <<>>
  ELSE (IF order[i] \in configured THEN <<order[i]>> ELSE <<>>)
       \o ConfiguredFrom(order, configured, i + 1)

\* the keys the for loop walks: self.sources.items() / ai_keys
Iterated(mode, configured) ==
  IF mode = "scrape_all" THEN ConfiguredFrom(SourceOrder, configured, 1) ELSE ai_keys

\* except Exception as e: ...; results[source_key] = []
OnSourceError_propagate == "raised"
OnSourceError == "next"

AllInit ==
  /\ SourceIdle
  /\ PipeIdle
  /\ CliIdle
  /\ fetches = <<>>
  /\ DiscIdle
  /\ CandIdle
  /\ ChainIdle
  /\ MetaIdle
  /\ BodyIdle
  /\ aMode \in {"scrape_all", "scrape_ai_sources_only"}
  /\ aSources \in {c \in SUBSET AllKeys : Cardinality(c) <= MaxSources}
  /\ aOutcome \in [aSources -> SourceOutcomes]
  /\ aPos = 1
  /\ aResults = EmptyDict
  /\ aState = "running"

\* one iteration of the for loop
ScrapeOneSource ==
  /\ aState = "running"
  /\ aPos <= Len(Iterated(aMode, aSources))
  /\ LET key == Iterated(aMode, aSources)[aPos]
     IN  IF key \notin aSources
         \* cfg = self.sources.get(source_key); if not cfg: results[source_key] = []; continue
         THEN /\ aResults' = DictSet(aResults, key, <<>>)
              /\ aPos' = aPos + 1
              /\ aState' = aState
         ELSE IF aOutcome[key] = "raise"
         THEN IF OnSourceError = "next"
              THEN /\ aResults' = DictSet(aResults, key, <<>>)
                   /\ aPos' = aPos + 1
                   /\ aState' = aState
              ELSE /\ aState' = "raised"
                   /\ UNCHANGED <<aResults, aPos>>
         ELSE /\ aResults' = DictSet(aResults, key, ReturnedBy(key, aOutcome[key]))
              /\ aPos' = aPos + 1
              /\ aState' = aState
  /\ UNCHANGED <<aMode, aSources, aOutcome, metaVars, bodyVars, fetches, discVars, candVars,
                 chainVars, srcVars, pipeVars, cliVars>>

\* return results
AllReturn ==
  /\ aState = "running"
  /\ aPos > Len(Iterated(aMode, aSources))
  /\ aState' = "returned"
  /\ UNCHANGED <<aMode, aSources, aOutcome, aPos, aResults, metaVars, bodyVars, fetches,
                 discVars, candVars, chainVars, srcVars, pipeVars, cliVars>>

\* the keys of the first n iterations
KeysUpTo(n) == {Iterated(aMode, aSources)[i] : i \in 1..n}

\* C29: the call returns a mapping with exactly one entry per source key iterated;
\* a source whose scrape raises or whose key is not configured maps to an empty
\* list, and every other source, also after such a one, maps to its own result
C29_PerSourceIsolation ==
  /\ aState # "raised"
  /\ aState \in {"running", "returned"} =>
       /\ DOMAIN aResults = KeysUpTo(aPos - 1)
       /\ \A key \in DOMAIN aResults :
            IF key \notin aSources \/ aOutcome[key] = "raise"
            THEN aResults[key] = <<>>
            ELSE aResults[key] = ReturnedBy(key, aOutcome[key])
  /\ aState = "returned" => DOMAIN aResults = KeysUpTo(Len(Iterated(aMode, aSources)))

\* scrape_ai_sources_only has returned: the first key's scrape raised, the second
\* gave an article, the others are not configured
C29_Witness ==
  /\ aState = "returned"
  /\ aMode = "scrape_ai_sources_only"
  /\ aSources = {"aibusiness", "ainews"}
  /\ aOutcome["aibusiness"] = "raise"
  /\ aOutcome["ainews"] = "articles"
  /\ aResults["aibusiness"] = <<>>
  /\ aResults["ainews"] = <<[source |-> "ainews"]>>
  /\ aResults["openai_blog"] = <<>>

AllNext == ScrapeOneSource \/ AllReturn

SpecAll == AllInit /\ [][AllNext]_vars

(***************************************************************************)
(* The parts together                                                *)
(***************************************************************************)
Init == SourceInit \/ PipeInit \/ CliInit \/ FetchInit \/ DiscInit \/ CandInit \/ ChainInit
        \/ MetaInit \/ BodyInit \/ AllInit

Next == SourceNext \/ PipeNext \/ CliNext \/ FetchNext \/ DiscNext \/ CandNext \/ ChainNext
        \/ MetaNext \/ BodyNext \/ AllNext

Spec == Init /\ [][Next]_vars

====
